---------------------------- MODULE Spec2Model ----------------------------
(***************************************************************************)
(* Offline-first sync queue and delete queue of the budget app.            *)
(*                                                                         *)
(* The persisted state (AsyncStorage keys budget_app_sync_queue,           *)
(* budget_app_sync_status, delete_queue) and the remote transaction        *)
(* collection are shared by the asynchronous operations of                 *)
(* src/lib/syncQueue.ts, src/lib/appwrite.ts and the delete queue          *)
(* (src/unnamed/part_002).  Every `await` of the source is a point where   *)
(* another operation may run, so each action below is the code between two *)
(* awaits of one operation.  AsyncStorage reads and writes are taken to    *)
(* succeed; remote calls may fail.                                          *)
(***************************************************************************)
EXTENDS Integers, Sequences, FiniteSets, TLC

(***************************************************************************)
(* Bounds of the model.                                                    *)
(***************************************************************************)
NumItems == 3          \* queued transactions 1..NumItems
MaxRuns == 2           \* invocations of startSyncingTransactions
MaxFaults == 1         \* remote calls that answer with an error
MaxCrashes == 1        \* process kills
MaxDeleteAlls == 1     \* calls of queueDeleteAll
MaxResets == 1         \* calls of resetSyncStatus
RetryRuns == 4         \* invocations when retries are followed to the cap
RetryFaults == 4       \* remote errors when retries are followed to the cap
DelFaults == 2         \* remote errors met by delete runs
DelDeleteAlls == 2     \* calls of queueDeleteAll around a delete run
MaxRows == 4           \* rows of a pasted CSV
MaxUpserts == 1        \* calls of upsertAccountBalance of one caller
MaxUndos == 2          \* undos of an import
MaxKeyLen == 6         \* characters of a merchant key
MaxVoteDocs == 2       \* vote documents in the table categorized against
MaxGroups == 2         \* keyword groups one text can hit
MaxBatch == 2          \* rows of one batchCategorizeTransactions call
MaxDetailFaults == 2   \* failed requests of the transaction-detail screen
MaxLoads == 2          \* loads of the transaction-detail screen
MaxEdits == 3          \* toggles and saves of the transaction-detail screen
MaxLearns == 3         \* calls of learnMerchantCategory of one caller

(***************************************************************************)
(* Program constants.                                                      *)
(***************************************************************************)
MAX_RETRY_ATTEMPTS == 3
BATCH_SIZE == 2

Items == 1..NumItems
Runs == {"r1", "r2"}   \* two call sites may invoke a sync run at once
NoUser == "nobody"

\* Owner of a queued transaction: the first three belong to one user.
UserOf(x) == IF x <= 3 THEN "u1" ELSE "u2"
Users == {UserOf(x) : x \in Items}

Absent == [st |-> "absent", att |-> 0]
EmptyQueue == [x \in Items |-> Absent]
NoDelete == [status |-> "none", userId |-> NoUser, totalDeleted |-> 0, totalToDelete |-> 0]

Min(S) == CHOOSE m \in S : \A n \in S : m <= n

VARIABLES
  queue,        \* AsyncStorage budget_app_sync_queue: item -> [st, att]
  isSyncing,    \* AsyncStorage budget_app_sync_status .isSyncing
  delOp,        \* AsyncStorage delete_queue: the DeleteOperation, or NoDelete
  remote,       \* remote collection: item -> number of documents created from it
  run,          \* the invocations of startSyncingTransactions
  ret,          \* what each invocation last returned
  del,          \* the invocations of startDeletingTransactions
  deleteOperationLocked,
  qda,          \* the invocation of queueDeleteAll
  clr,          \* pending clearCompletedTransactions timers and their reads
  envConfigured,\* databaseId and transactionsTableId are set
  up,           \* the app process is started and initialised
  tries,        \* item -> creates issued for it, and creates of it refused
  late,         \* delete requests still under way after their caller gave up
  failing,      \* documents whose delete the remote store always refuses
  env,          \* what the environment may still do (bounds)
  parseResult,  \* the rows parsed from the pasted CSV
  balances,     \* the account balances persisted by updateAccountBalance
  imp,          \* where the import screen is: "paste" or "preview"
  balanceDocs,  \* remote balance collection, in creation order
  upsert,       \* the invocations of upsertAccountBalance
  bimp,         \* the import that saves a snapshot and upserts the balances
  undo,         \* the undo of an import (handleUndoLastImport)
  voteDocs,     \* remote merchant_votes collection, in creation order
  learn,        \* the invocations of learnMerchantCategory
  match,        \* an application of findMatchingCategory
  cat,          \* a call of categorizeTransaction or batchCategorizeTransactions
  tx,           \* the transaction shown: its copies in the sync queue and remote
  detail,       \* the transaction-detail screen
  enq,          \* a call of queueTransactionsForSync
  cln,          \* a call of cleanupSyncQueue
  xfer,         \* two linked transactions and the screen opened on one
  acct          \* a call of deleteAccount

vars == <<queue, isSyncing, delOp, remote, run, ret, del, deleteOperationLocked,
          qda, clr, envConfigured, up, tries, late, failing, env,
          parseResult, balances, imp, balanceDocs, upsert, bimp, undo,
          voteDocs, learn, match, cat, tx, detail, enq, cln, xfer, acct>>

balanceVars == <<balanceDocs, upsert, bimp, undo>>
learnVars == <<voteDocs, learn, match, cat>>
detailVars == <<tx, detail>>
lateVars == <<enq, cln, xfer, acct>>
importVars == <<parseResult, balances, imp, balanceVars, learnVars, detailVars, lateVars>>
\* The variables of the screens.
screenVars == <<parseResult, balances, imp, balanceVars, learnVars, detailVars>>
\* The variables of the screens other than the balance collection.
otherVars == <<parseResult, balances, imp, learnVars, detailVars, lateVars>>
\* The variables the merchant votes do not touch.
nonLearnVars == <<parseResult, balances, imp, balanceVars, detailVars, lateVars>>
\* The variables the transaction-detail screen does not touch.
nonDetailVars == <<parseResult, balances, imp, balanceVars, learnVars, lateVars>>
queueVars == <<queue, isSyncing, delOp, remote, run, ret, del,
               deleteOperationLocked, qda, clr, envConfigured, up, tries,
               late, failing, env>>


(***************************************************************************)
(* Pure helpers of the sync run.                                           *)
(***************************************************************************)
Present(q) == {x \in Items : q[x].st # "absent"}

\* syncQueue.ts 275-279: what a run selects for upload.
Selected(q) ==
  {x \in Items : \/ q[x].st = "pending"
                 \/ q[x].st = "syncing"
                 \/ (q[x].st = "failed" /\ q[x].att < MAX_RETRY_ATTEMPTS)}

\* syncQueue.ts 301-305
MarkSyncing(q, sel) ==
  [x \in Items |-> IF x \in sel /\ q[x].st # "absent"
                   THEN [q[x] EXCEPT !.st = "syncing"] ELSE q[x]]

\* syncQueue.ts 339, 411, 581-583 (and 232-234)
ResetSyncing(q) ==
  [x \in Items |-> IF q[x].st = "syncing" THEN [q[x] EXCEPT !.st = "pending"] ELSE q[x]]

\* syncQueue.ts 394-405: the per-batch completion callback.
MarkCompleted(q, group, done) ==
  [x \in Items |-> IF x \in group /\ x \in done /\ q[x].st # "absent"
                   THEN [st |-> "completed", att |-> q[x].att + 1] ELSE q[x]]

\* A final marking that fails the whole group when one create failed.
FinalQueueAllFailed(q, group, succeeded, nerr) ==
  [x \in Items |->
     IF x \in group /\ q[x].st # "absent"
     THEN IF nerr > 0 THEN [st |-> "failed", att |-> q[x].att + 1]
          ELSE IF x \in succeeded THEN [st |-> "completed", att |-> q[x].att + 1]
          ELSE q[x]
     ELSE q[x]]

\* syncQueue.ts 430-450: the queue written once a user's upload has returned.
FinalQueue(q, group, succeeded, nerr) ==
  [x \in Items |->
     IF x \in group /\ q[x].st # "absent"
     THEN IF x \in succeeded THEN [st |-> "completed", att |-> q[x].att + 1]
          ELSE IF nerr > 0 THEN [st |-> "failed", att |-> q[x].att + 1]
          ELSE q[x]
     ELSE q[x]]

\* syncQueue.ts 463-465, on the messages the model can throw.
IsNetworkError(msg) == msg \in {"Network request failed", "network timeout"}

\* syncQueue.ts 470-492: the queue written when a user's upload threw.
CatchQueue(q, group, msg) ==
  [x \in Items |->
     IF x \in group /\ q[x].st # "absent"
     THEN IF IsNetworkError(msg) \/ q[x].att < MAX_RETRY_ATTEMPTS - 1
          THEN [st |-> "pending", att |-> q[x].att + 1]
          ELSE [st |-> "failed", att |-> q[x].att + 1]
     ELSE q[x]]

\* syncQueue.ts 609-613
WithoutCompleted(q) ==
  [x \in Items |-> IF q[x].st = "completed" THEN Absent ELSE q[x]]

RECURSIVE SortedSeq(_)
SortedSeq(S) == IF S = {} THEN <<>> ELSE <<Min(S)>> \o SortedSeq(S \ {Min(S)})

\* syncQueue.ts 309-315: users in order of their first selected item.
RECURSIVE GroupsOf(_)
GroupsOf(S) ==
  IF S = {} THEN <<>>
  ELSE LET u == UserOf(Min(S)) IN <<u>> \o GroupsOf({x \in S : UserOf(x) # u})

\* userTransactions of the user being processed, in queue order.
UserTransactions(sel, u) == SortedSeq({x \in sel : UserOf(x) = u})

\* A slice that takes everything from i on.
BatchAtAll(s, i) == {s[k] : k \in {j \in 1..Len(s) : j > i}}
\* appwrite.ts 804: transactions.slice(i, i + BATCH_SIZE), i counted from 0.
BatchAt(s, i) == {s[k] : k \in {j \in 1..Len(s) : j > i /\ j <= i + BATCH_SIZE}}

\* appwrite.ts 639, 695: no customId is given, so ID.unique() is used.
NoId == 0
\* A caller that hands on no id.
WithoutCustomId(x) == NoId
\* appwrite.ts 819: the queued id is handed on as the document id.
CustomId(x) == x

\* appwrite.ts 692-697 with the remote store's rule that ids are unique:
\* the result of createDocument(customId || ID.unique()) for item x.
CreateResult(rem, x, id) ==
  IF id # NoId /\ rem[x] > 0 THEN "duplicate" ELSE "created"
CreateEffect(rem, x, id) ==
  IF id # NoId /\ rem[x] > 0 THEN rem ELSE [rem EXCEPT ![x] = @ + 1]

\* appwrite.ts 834-836: a duplicate id counts as success.
IsSuccess(result) == result \in {"created", "duplicate"}


(***************************************************************************)
(* State of one invocation of startSyncingTransactions.  pc names the      *)
(* await the invocation is suspended at.                                   *)
(*   sel      pendingTransactions (274-279)                                *)
(*   grp      users of groupedByUser still to process, current one first   *)
(*   snap     the queue as last read by this invocation                    *)
(*   i        createBulkTransactions' loop index                           *)
(*   wait     creates of the current batch not yet answered                *)
(*   bsucc    batchSuccessfulIndices, succ successfulIndices               *)
(*   created, nerr   created and errors.length of createBulkTransactions   *)
(*   cancel   cancelSync, poll: the cancelPoll interval is set             *)
(*   sent, oks, dups, netf, errf: the items the run has sent a create for,  *)
(*   and those answered by success, duplicate id, network error, refusal   *)
(*   busy     the stored isSyncing flag was true when the call was made     *)
(***************************************************************************)
NoQda == [pc |-> "idle", userId |-> NoUser]
NoClear == [timers |-> 0, pc |-> "idle", snap |-> EmptyQueue]

IdleRun ==
  [pc |-> "idle", sel |-> {}, grp |-> <<>>, snap |-> EmptyQueue, i |-> 0,
   wait |-> {}, bsucc |-> {}, succ |-> {}, created |-> 0, nerr |-> 0,
   cancel |-> FALSE, poll |-> FALSE, totalS |-> 0, totalF |-> 0,
   sent |-> {}, oks |-> {}, dups |-> {}, netf |-> {}, errf |-> {}, busy |-> FALSE]

\* A returned value {succeeded, failed}; how and ups record the path taken and
\* the number of items the run got a success for.
NoRet == [succeeded |-> -1, failed |-> -1, how |-> "none", ups |-> 0]
Ret(s, f, how, ups) == [succeeded |-> s, failed |-> f, how |-> how, ups |-> ups]

DeleteActive(op) == op.status \in {"pending", "in-progress"}

\* A start check that only sees a delete run already in its loop.
BlocksStartInProgressOnly(op) == op.status = "in-progress"

\* syncQueue.ts 264: the check made before a run starts.
BlocksStart(op) == op.status # "none" /\ op.status # "completed"
\* syncQueue.ts 325 and 336: the check made while a run is under way.
BlocksRun(op) == op.status = "in-progress" \/ op.status = "pending"

Group(rr) == {x \in rr.sel : UserOf(x) = Head(rr.grp)}

\* appwrite.ts 800-843: one turn of the batch loop: the creates of
\* transactions.slice(i, i + BATCH_SIZE) are issued together.
IssueBatch(rr, i) ==
  LET b == BatchAt(UserTransactions(rr.sel, Head(rr.grp)), i)
  IN [rr EXCEPT !.pc = "s_batch", !.i = i, !.wait = b, !.bsucc = {},
                !.sent = @ \cup b]

\* syncQueue.ts 408-430: after createBulkTransactions has returned.
AfterBulk(rr) ==
  IF rr.cancel
  THEN [rr EXCEPT !.pc = "s_cancel_read"]
  ELSE [rr EXCEPT !.pc = "s_fin_read",
                  !.totalS = @ + rr.created, !.totalF = @ + rr.nerr]

\* appwrite.ts 793-803: createBulkTransactions is entered for the current user.
BeginBulk(rr) ==
  LET r0 == [rr EXCEPT !.created = 0, !.nerr = 0, !.succ = {}, !.bsucc = {}]
  IN IF r0.cancel THEN AfterBulk(r0) ELSE IssueBatch(r0, 0)

\* appwrite.ts 866-876: the end of a turn of the batch loop.
EndOfBatch(rr) ==
  IF rr.i + BATCH_SIZE < Len(UserTransactions(rr.sel, Head(rr.grp)))
  THEN [rr EXCEPT !.pc = "s_delay"]
  ELSE AfterBulk(rr)

\* syncQueue.ts 332, 496-510: on to the next user, or to the final status.
NextGroup(rr) ==
  IF Len(rr.grp) > 1
  THEN [rr EXCEPT !.pc = "s_group", !.grp = Tail(@), !.snap = EmptyQueue]
  ELSE [rr EXCEPT !.pc = "s_end_read", !.grp = <<>>, !.snap = EmptyQueue]

Return(r, s, f, how) ==
  /\ run' = [run EXCEPT ![r] = IdleRun]
  /\ ret' = [ret EXCEPT ![r] = Ret(s, f, how, Cardinality(run[r].oks))]

(***************************************************************************)
(* startSyncingTransactions (syncQueue.ts 258-604)                         *)
(***************************************************************************)
\* 263-264: the call, and its read of the delete operation.
StartSync(r) ==
  /\ up
  /\ run[r].pc = "idle"
  /\ env.runs > 0
  /\ env' = [env EXCEPT !.runs = @ - 1]
  /\ run' = [run EXCEPT ![r] = [IdleRun EXCEPT
                !.pc = IF BlocksStart(delOp) THEN "s_blocked" ELSE "s_readq",
                !.busy = isSyncing]]
  /\ ret' = [ret EXCEPT ![r] = NoRet]
  /\ UNCHANGED <<queue, isSyncing, delOp, remote, del, deleteOperationLocked,
                 qda, clr, envConfigured, late, failing, tries, up,
                 importVars>>

\* 265-271: a delete operation is there: the status is written, 0/0 returned.
SyncBlocked(r) ==
  /\ run[r].pc = "s_blocked"
  /\ isSyncing' = FALSE
  /\ Return(r, 0, 0, "blocked")
  /\ UNCHANGED <<queue, delOp, remote, del, deleteOperationLocked, qda, clr,
                 envConfigured, late, failing, tries, up, env,
                 importVars>>

\* 274-281: the queue is read and the pending transactions selected.
SyncReadQueue(r) ==
  /\ run[r].pc = "s_readq"
  /\ run' = [run EXCEPT ![r] =
       IF Selected(queue) = {}
       THEN [@ EXCEPT !.pc = "s_empty"]
       ELSE [@ EXCEPT !.pc = "s_status", !.sel = Selected(queue), !.snap = queue]]
  /\ UNCHANGED <<queue, isSyncing, delOp, remote, ret, del, deleteOperationLocked,
                 qda, clr, envConfigured, late, failing, tries, up, env,
                 importVars>>

\* 283-288: nothing to upload.
SyncEmpty(r) ==
  /\ run[r].pc = "s_empty"
  /\ isSyncing' = FALSE
  /\ Return(r, 0, 0, "empty")
  /\ UNCHANGED <<queue, delOp, remote, del, deleteOperationLocked, qda, clr,
                 envConfigured, late, failing, tries, up, env,
                 importVars>>

\* 292-297: the status is set to syncing.
SyncSetStatus(r) ==
  /\ run[r].pc = "s_status"
  /\ isSyncing' = TRUE
  /\ run' = [run EXCEPT ![r].pc = "s_mark"]
  /\ UNCHANGED <<queue, delOp, remote, ret, del, deleteOperationLocked, qda, clr,
                 envConfigured, late, failing, tries, up, env,
                 importVars>>

\* 300-329: the queue read at 274 is written back with the selection marked
\* syncing; the users are grouped and the cancel poll is set.
SyncMark(r) ==
  /\ run[r].pc = "s_mark"
  /\ queue' = MarkSyncing(run[r].snap, run[r].sel)
  /\ run' = [run EXCEPT ![r] = [@ EXCEPT !.pc = "s_group", !.grp = GroupsOf(run[r].sel),
                                         !.snap = EmptyQueue, !.poll = TRUE]]
  /\ UNCHANGED <<isSyncing, delOp, remote, ret, del, deleteOperationLocked, qda, clr,
                 envConfigured, late, failing, tries, up, env,
                 importVars>>

\* 322-329: the interval callback.
CancelPoll(r) ==
  /\ run[r].poll
  /\ ~run[r].cancel
  /\ BlocksRun(delOp)
  /\ run' = [run EXCEPT ![r].cancel = TRUE]
  /\ UNCHANGED <<queue, isSyncing, delOp, remote, ret, del, deleteOperationLocked,
                 qda, clr, envConfigured, late, failing, tries, up, env,
                 importVars>>

\* 335-336, 385 and appwrite.ts 791-843: the delete operation is read before a
\* user's transactions are uploaded; then createBulkTransactions is entered,
\* and throws when the backend is not configured.
SyncGroup(r) ==
  /\ run[r].pc = "s_group"
  /\ run' = [run EXCEPT ![r] =
       IF BlocksRun(delOp) THEN [@ EXCEPT !.pc = "s_cancel_read"]
       ELSE IF ~envConfigured
            THEN [@ EXCEPT !.pc = "s_catch_read",
                           !.totalF = @ + Cardinality(Group(run[r]))]
            ELSE BeginBulk(@)]
  /\ UNCHANGED <<queue, isSyncing, delOp, remote, ret, del, deleteOperationLocked,
                 qda, clr, envConfigured, late, failing, up, env,
                 importVars>>
  /\ tries' = [x \in Items |-> IF x \in run'[r].sent \ run[r].sent
                               THEN [tries[x] EXCEPT !.sent = @ + 1] ELSE tries[x]]


\* appwrite.ts 845-870 once every create of the batch is answered: the
\* successes are counted; the completion callback is called when there are
\* any, else progress is reported (syncQueue.ts 388-392 rewrites the status).
BatchResolved(rr) ==
  LET r1 == [rr EXCEPT !.created = @ + Cardinality(rr.bsucc),
                       !.succ = @ \cup rr.bsucc]
  IN IF rr.bsucc # {} THEN [r1 EXCEPT !.pc = "s_obs_read"] ELSE EndOfBatch(r1)

Answered(r, rr) ==
  /\ run' = [run EXCEPT ![r] = IF rr.wait = {} THEN BatchResolved(rr) ELSE rr]
  /\ isSyncing' = IF rr.wait = {} /\ rr.bsucc = {} THEN TRUE ELSE isSyncing

\* appwrite.ts 810-829, 833-837: a create is answered by the remote store.
CreateAnswered(r, x) ==
  /\ run[r].pc = "s_batch"
  /\ x \in run[r].wait
  /\ LET res == CreateResult(remote, x, CustomId(x))
     IN /\ remote' = CreateEffect(remote, x, CustomId(x))
        /\ Answered(r, [run[r] EXCEPT
                          !.wait = @ \ {x},
                          !.bsucc = IF IsSuccess(res) THEN @ \cup {x} ELSE @,
                          !.nerr = IF IsSuccess(res) THEN @ ELSE @ + 1,
                          !.oks = IF IsSuccess(res) THEN @ \cup {x} ELSE @,
                          !.dups = IF res = "duplicate" THEN @ \cup {x} ELSE @])
  /\ UNCHANGED <<queue, delOp, ret, del, deleteOperationLocked, qda, clr,
                 envConfigured, late, failing, tries, up, env,
                 importVars>>

\* appwrite.ts 830-842: a create fails with a network error; the request may
\* or may not have reached the store.
CreateNetworkError(r, x) ==
  /\ run[r].pc = "s_batch"
  /\ x \in run[r].wait
  /\ env.faults > 0
  /\ env' = [env EXCEPT !.faults = @ - 1]
  /\ \E landed \in BOOLEAN :
       remote' = IF landed THEN CreateEffect(remote, x, CustomId(x)) ELSE remote
  /\ Answered(r, [run[r] EXCEPT !.wait = @ \ {x}, !.nerr = @ + 1,
                                !.netf = @ \cup {x}])
  /\ UNCHANGED <<queue, delOp, ret, del, deleteOperationLocked, qda, clr,
                 envConfigured, late, failing, tries, up,
                 importVars>>

\* appwrite.ts 830-842: a create is refused with an error that is neither a
\* duplicate id nor a network error.
CreateRefused(r, x) ==
  /\ run[r].pc = "s_batch"
  /\ x \in run[r].wait
  /\ env.faults > 0
  /\ env' = [env EXCEPT !.faults = @ - 1]
  /\ Answered(r, [run[r] EXCEPT !.wait = @ \ {x}, !.nerr = @ + 1,
                                !.errf = @ \cup {x}])
  /\ tries' = [tries EXCEPT ![x].refused = @ + 1]
  /\ UNCHANGED <<queue, delOp, remote, ret, del, deleteOperationLocked, qda, clr,
                 envConfigured, late, failing, up,
                 importVars>>

\* syncQueue.ts 396: the completion callback reads the queue.
BatchSuccessRead(r) ==
  /\ run[r].pc = "s_obs_read"
  /\ run' = [run EXCEPT ![r] = [@ EXCEPT !.pc = "s_obs_write", !.snap = queue]]
  /\ UNCHANGED <<queue, isSyncing, delOp, remote, ret, del, deleteOperationLocked,
                 qda, clr, envConfigured, late, failing, tries, up, env,
                 importVars>>

\* syncQueue.ts 397-404, then appwrite.ts 866-876 and syncQueue.ts 388-392.
BatchSuccessWrite(r) ==
  /\ run[r].pc = "s_obs_write"
  /\ queue' = MarkCompleted(run[r].snap, Group(run[r]), run[r].bsucc)
  /\ isSyncing' = TRUE
  /\ run' = [run EXCEPT ![r] = EndOfBatch([@ EXCEPT !.snap = EmptyQueue])]
  /\ UNCHANGED <<delOp, remote, ret, del, deleteOperationLocked, qda, clr,
                 envConfigured, late, failing, tries, up, env,
                 importVars>>

\* appwrite.ts 873-875, 800-804: the delay is over, the next batch starts
\* unless the cancel flag is up.
NextBatch(r) ==
  /\ run[r].pc = "s_delay"
  /\ run' = [run EXCEPT ![r] =
       IF @.cancel THEN AfterBulk(@) ELSE IssueBatch(@, @.i + BATCH_SIZE)]
  /\ UNCHANGED <<queue, isSyncing, delOp, remote, ret, del, deleteOperationLocked,
                 qda, clr, envConfigured, late, failing, up, env,
                 importVars>>
  /\ tries' = [x \in Items |-> IF x \in run'[r].sent \ run[r].sent
                               THEN [tries[x] EXCEPT !.sent = @ + 1] ELSE tries[x]]

\* syncQueue.ts 430: the queue is read for the user's final marking.
FinalRead(r) ==
  /\ run[r].pc = "s_fin_read"
  /\ run' = [run EXCEPT ![r] = [@ EXCEPT !.pc = "s_fin_write", !.snap = queue]]
  /\ UNCHANGED <<queue, isSyncing, delOp, remote, ret, del, deleteOperationLocked,
                 qda, clr, envConfigured, late, failing, tries, up, env,
                 importVars>>

\* The timer of syncQueue.ts 502-506 is set when the last user is done.
TimerSet(rr) == IF Len(rr.grp) > 1 THEN clr ELSE [clr EXCEPT !.timers = @ + 1]

\* syncQueue.ts 430-452
FinalWrite(r) ==
  /\ run[r].pc = "s_fin_write"
  /\ queue' = FinalQueue(run[r].snap, Group(run[r]), run[r].succ, run[r].nerr)
  /\ clr' = TimerSet(run[r])
  /\ run' = [run EXCEPT ![r] = NextGroup(@)]
  /\ UNCHANGED <<isSyncing, delOp, remote, ret, del, deleteOperationLocked, qda,
                 envConfigured, late, failing, tries, up, env,
                 importVars>>

\* syncQueue.ts 470: the queue is read after the user's upload threw.
CatchRead(r) ==
  /\ run[r].pc = "s_catch_read"
  /\ run' = [run EXCEPT ![r] = [@ EXCEPT !.pc = "s_catch_write", !.snap = queue]]
  /\ UNCHANGED <<queue, isSyncing, delOp, remote, ret, del, deleteOperationLocked,
                 qda, clr, envConfigured, late, failing, tries, up, env,
                 importVars>>

\* syncQueue.ts 470-494
CatchWrite(r) ==
  /\ run[r].pc = "s_catch_write"
  /\ queue' = CatchQueue(run[r].snap, Group(run[r]), "Appwrite env not configured")
  /\ clr' = TimerSet(run[r])
  /\ run' = [run EXCEPT ![r] = NextGroup(@)]
  /\ UNCHANGED <<isSyncing, delOp, remote, ret, del, deleteOperationLocked, qda,
                 envConfigured, late, failing, tries, up, env,
                 importVars>>

\* syncQueue.ts 338 and 410: a cancelled run reads the queue.
CancelRead(r) ==
  /\ run[r].pc = "s_cancel_read"
  /\ run' = [run EXCEPT ![r] = [@ EXCEPT !.pc = "s_cancel_write", !.snap = queue]]
  /\ UNCHANGED <<queue, isSyncing, delOp, remote, ret, del, deleteOperationLocked,
                 qda, clr, envConfigured, late, failing, tries, up, env,
                 importVars>>

\* syncQueue.ts 339-340 and 411-412
CancelWrite(r) ==
  /\ run[r].pc = "s_cancel_write"
  /\ queue' = ResetSyncing(run[r].snap)
  /\ run' = [run EXCEPT ![r] = [@ EXCEPT !.pc = "s_cancel_status", !.snap = EmptyQueue]]
  /\ UNCHANGED <<isSyncing, delOp, remote, ret, del, deleteOperationLocked, qda, clr,
                 envConfigured, late, failing, tries, up, env,
                 importVars>>

\* syncQueue.ts 341-349 and 413-421: the totals are returned as they stand.
CancelReturn(r) ==
  /\ run[r].pc = "s_cancel_status"
  /\ isSyncing' = FALSE
  /\ Return(r, run[r].totalS, run[r].totalF, "cancelled")
  /\ UNCHANGED <<queue, delOp, remote, del, deleteOperationLocked, qda, clr,
                 envConfigured, late, failing, tries, up, env,
                 importVars>>

\* syncQueue.ts 510-524: the final status is written.
EndStatus(r) ==
  /\ run[r].pc = "s_end_read"
  /\ isSyncing' = FALSE
  /\ run' = [run EXCEPT ![r] = [@ EXCEPT !.pc = "s_notify", !.poll = FALSE]]
  /\ UNCHANGED <<queue, delOp, remote, ret, del, deleteOperationLocked, qda, clr,
                 envConfigured, late, failing, tries, up, env,
                 importVars>>

\* syncQueue.ts 526-569: the notifications are awaited, the totals returned.
EndReturn(r) ==
  /\ run[r].pc = "s_notify"
  /\ Return(r, run[r].totalS, run[r].totalF, "done")
  /\ UNCHANGED <<queue, isSyncing, delOp, remote, del, deleteOperationLocked, qda,
                 clr, envConfigured, late, failing, tries, up, env,
                 importVars>>

(***************************************************************************)
(* clearCompletedTransactions (syncQueue.ts 609-617), run by the timer of  *)
(* syncQueue.ts 502-506.                                                   *)
(***************************************************************************)
ClearRead ==
  /\ clr.pc = "idle"
  /\ clr.timers > 0
  /\ clr' = [timers |-> clr.timers - 1, pc |-> "c_write", snap |-> queue]
  /\ UNCHANGED <<queue, isSyncing, delOp, remote, run, ret, del,
                 deleteOperationLocked, qda, envConfigured, late, failing, tries, up, env,
                 importVars>>

ClearWrite ==
  /\ clr.pc = "c_write"
  /\ queue' = WithoutCompleted(clr.snap)
  /\ clr' = [clr EXCEPT !.pc = "idle", !.snap = EmptyQueue]
  /\ UNCHANGED <<isSyncing, delOp, remote, run, ret, del, deleteOperationLocked,
                 qda, envConfigured, late, failing, tries, up, env,
                 importVars>>


(***************************************************************************)
(* queueDeleteAll (part_002 882-908)                                       *)
(***************************************************************************)
\* 883-891: the pending operation is stored.
QueueDeleteAll(u) ==
  /\ up
  /\ qda.pc = "idle"
  /\ env.deleteAlls > 0
  /\ env' = [env EXCEPT !.deleteAlls = @ - 1]
  /\ delOp' = [status |-> "pending", userId |-> u, totalDeleted |-> 0,
               totalToDelete |-> 0]
  /\ qda' = [pc |-> "q_queue", userId |-> u]
  /\ UNCHANGED <<queue, isSyncing, remote, run, ret, del, deleteOperationLocked,
                 clr, envConfigured, late, failing, tries, up,
                 importVars>>

\* 894: the sync queue is removed.
QdaRemoveQueue ==
  /\ qda.pc = "q_queue"
  /\ queue' = EmptyQueue
  /\ qda' = [qda EXCEPT !.pc = "q_status"]
  /\ UNCHANGED <<isSyncing, delOp, remote, run, ret, del, deleteOperationLocked,
                 clr, envConfigured, late, failing, tries, up, env,
                 importVars>>

\* 897 (866-873): the sync status is reset.
QdaResetStatus ==
  /\ qda.pc = "q_status"
  /\ isSyncing' = FALSE
  /\ qda' = NoQda
  /\ UNCHANGED <<queue, delOp, remote, run, ret, del, deleteOperationLocked,
                 clr, envConfigured, late, failing, tries, up, env,
                 importVars>>

(***************************************************************************)
(* startDeletingTransactions (part_002 931-1176).  del[d] is one           *)
(* invocation; pc names the await it is suspended at.                      *)
(*   doc       the document listed and being deleted                       *)
(*   answered  documents whose delete answered 404 in this invocation      *)
(*   gaveUp    documents given up after the rate-limit retry failed        *)
(*   lockedOut the last call of this caller was turned away by the lock    *)
(***************************************************************************)
DelRuns == {"d1", "d2"}   \* two call sites may invoke a delete run at once

\* 923-929: updateDeleteStatus merges into the stored operation, if any.
UpdateDeleteStatus(op, status, totalDeleted, totalToDelete) ==
  IF op.status = "none" THEN op
  ELSE [op EXCEPT !.status = status, !.totalDeleted = totalDeleted,
                  !.totalToDelete = totalToDelete]

DocsOf(rem, u) == {x \in Items : UserOf(x) = u /\ rem[x] > 0}
CountOf(rem, u) == Cardinality(DocsOf(rem, u))

IdleDelete == [pc |-> "idle", userId |-> NoUser, totalDeleted |-> 0,
               totalToDelete |-> 0, doc |-> NoId, answered |-> {},
               gaveUp |-> {}, lockedOut |-> FALSE]

\* A delete run that does not look at the lock.
StartDeleteUnlocked(d) ==
  /\ up
  /\ del[d].pc = "idle"
  /\ deleteOperationLocked' = TRUE
  /\ del' = [del EXCEPT ![d] = [IdleDelete EXCEPT !.pc = "d_read"]]
  /\ UNCHANGED <<queue, isSyncing, delOp, remote, run, ret, qda, clr,
                 envConfigured, late, failing, tries, up, env,
                 importVars>>

\* 934-944: the lock is free and is taken.
StartDelete(d) ==
  /\ up
  /\ del[d].pc = "idle"
  /\ ~deleteOperationLocked
  /\ deleteOperationLocked' = TRUE
  /\ del' = [del EXCEPT ![d] = [IdleDelete EXCEPT !.pc = "d_read"]]
  /\ UNCHANGED <<queue, isSyncing, delOp, remote, run, ret, qda, clr,
                 envConfigured, late, failing, tries, up, env,
                 importVars>>

\* 934-938: the lock is held: the call returns at once.
DeleteLockedOut(d) ==
  /\ up
  /\ del[d].pc = "idle"
  /\ deleteOperationLocked
  /\ ~del[d].lockedOut
  /\ del' = [del EXCEPT ![d].lockedOut = TRUE]
  /\ UNCHANGED <<queue, isSyncing, delOp, remote, run, ret, deleteOperationLocked,
                 qda, clr, envConfigured, late, failing, tries, up, env,
                 importVars>>

\* 944-957: the operation is read; without one to run the call returns
\* (1172-1175 frees the lock), else the documents are counted.
DeleteRead(d) ==
  /\ del[d].pc = "d_read"
  /\ IF delOp.status \in {"none", "completed", "in-progress"}
     THEN /\ del' = [del EXCEPT ![d] = IdleDelete]
          /\ deleteOperationLocked' = FALSE
     ELSE /\ del' = [del EXCEPT ![d].pc = "d_count", ![d].userId = delOp.userId]
          /\ UNCHANGED deleteOperationLocked
  /\ UNCHANGED <<queue, isSyncing, delOp, remote, run, ret, qda, clr,
                 envConfigured, late, failing, tries, up, env,
                 importVars>>

\* 961-967: the total to delete is counted.
DeleteCount(d) ==
  /\ del[d].pc = "d_count"
  /\ del' = [del EXCEPT ![d].pc = "d_begin",
                        ![d].totalToDelete = CountOf(remote, del[d].userId)]
  /\ UNCHANGED <<queue, isSyncing, delOp, remote, run, ret, deleteOperationLocked,
                 qda, clr, envConfigured, late, failing, tries, up, env,
                 importVars>>

\* 968-975: counting failed; the total is taken to be 0.
DeleteCountFailed(d) ==
  /\ del[d].pc = "d_count"
  /\ env.faults > 0
  /\ env' = [env EXCEPT !.faults = @ - 1]
  /\ del' = [del EXCEPT ![d].pc = "d_begin", ![d].totalToDelete = 0]
  /\ UNCHANGED <<queue, isSyncing, delOp, remote, run, ret, deleteOperationLocked,
                 qda, clr, envConfigured, late, failing, tries, up,
                 importVars>>

\* 977-983: the operation becomes in-progress.
DeleteBegin(d) ==
  /\ del[d].pc = "d_begin"
  /\ delOp' = UpdateDeleteStatus(delOp, "in-progress", delOp.totalDeleted,
                                 del[d].totalToDelete)
  /\ del' = [del EXCEPT ![d].pc = "d_list", ![d].totalDeleted = 0]
  /\ UNCHANGED <<queue, isSyncing, remote, run, ret, deleteOperationLocked,
                 qda, clr, envConfigured, late, failing, tries, up, env,
                 importVars>>

\* 1017-1023, 1066-1072: the first document of the user is listed and its
\* delete issued; with none left the operation is about to be completed.
DeleteList(d) ==
  /\ del[d].pc = "d_list"
  /\ LET docs == DocsOf(remote, del[d].userId)
     IN del' = IF docs = {} THEN [del EXCEPT ![d].pc = "d_completed"]
               ELSE [del EXCEPT ![d].pc = "d_delete", ![d].doc = Min(docs)]
  /\ UNCHANGED <<queue, isSyncing, delOp, remote, run, ret, deleteOperationLocked,
                 qda, clr, envConfigured, late, failing, tries, up, env,
                 importVars>>

\* 1017-1021, 1141-1142: listing throws; the outer catch is entered.
DeleteListFailed(d) ==
  /\ del[d].pc = "d_list"
  /\ env.faults > 0
  /\ env' = [env EXCEPT !.faults = @ - 1]
  /\ del' = [del EXCEPT ![d].pc = "d_failed"]
  /\ UNCHANGED <<queue, isSyncing, delOp, remote, run, ret, deleteOperationLocked,
                 qda, clr, envConfigured, late, failing, tries, up,
                 importVars>>

\* The document is removed from the remote store, if it is there.
Removed(rem, x) == [rem EXCEPT ![x] = IF @ > 0 THEN @ - 1 ELSE 0]

\* A delete that counts a document only when it was there to delete.
DeleteDocumentFoundOnly(d) ==
  /\ del[d].pc = "d_delete"
  /\ del[d].doc \notin failing
  /\ remote' = Removed(remote, del[d].doc)
  /\ del' = [del EXCEPT ![d].pc = "d_progress",
                        ![d].totalDeleted = IF remote[del[d].doc] = 0 THEN @ ELSE @ + 1,
                        ![d].answered = IF remote[del[d].doc] = 0
                                        THEN @ \cup {del[d].doc} ELSE @]
  /\ UNCHANGED <<queue, isSyncing, delOp, run, ret, deleteOperationLocked,
                 qda, clr, envConfigured, late, failing, tries, up, env,
                 importVars>>

\* 1068-1085: the delete is answered: the document is deleted, or it is
\* already gone (404); either way it is counted.
DeleteDocument(d) ==
  /\ del[d].pc = "d_delete"
  /\ del[d].doc \notin failing
  /\ remote' = Removed(remote, del[d].doc)
  /\ del' = [del EXCEPT ![d].pc = "d_progress", ![d].totalDeleted = @ + 1,
                        ![d].answered = IF remote[del[d].doc] = 0
                                        THEN @ \cup {del[d].doc} ELSE @]
  /\ UNCHANGED <<queue, isSyncing, delOp, run, ret, deleteOperationLocked,
                 qda, clr, envConfigured, late, failing, tries, up, env,
                 importVars>>

\* 1116-1122: the delete is refused with an error that is neither 404 nor a
\* rate limit; nothing is counted.
DeleteRefused(d) ==
  /\ del[d].pc = "d_delete"
  /\ \/ del[d].doc \in failing /\ env' = env
     \/ env.faults > 0 /\ env' = [env EXCEPT !.faults = @ - 1]
  /\ del' = [del EXCEPT ![d].pc = "d_progress"]
  /\ UNCHANGED <<queue, isSyncing, delOp, remote, run, ret, deleteOperationLocked,
                 qda, clr, envConfigured, late, failing, tries, up,
                 importVars>>

\* 1116-1122: the caller gets a network error while its request is still on
\* its way to the store; nothing is counted.
DeleteTimedOut(d) ==
  /\ del[d].pc = "d_delete"
  /\ del[d].doc \notin failing
  /\ env.faults > 0
  /\ env' = [env EXCEPT !.faults = @ - 1]
  /\ late' = late \cup {del[d].doc}
  /\ del' = [del EXCEPT ![d].pc = "d_progress"]
  /\ UNCHANGED <<queue, isSyncing, delOp, remote, run, ret, deleteOperationLocked,
                 qda, clr, envConfigured, failing, tries, up,
                 importVars>>

\* A delete request that outlived its caller reaches the store.
LateDelete ==
  /\ \E x \in late :
       /\ remote' = Removed(remote, x)
       /\ late' = late \ {x}
  /\ UNCHANGED <<queue, isSyncing, delOp, run, ret, del, deleteOperationLocked,
                 qda, clr, envConfigured, failing, tries, up, env,
                 importVars>>

\* 1086-1097: the delete is answered 429; the run waits 10 s and retries.
DeleteRateLimited(d) ==
  /\ del[d].pc = "d_delete"
  /\ env.faults > 0
  /\ env' = [env EXCEPT !.faults = @ - 1]
  /\ del' = [del EXCEPT ![d].pc = "d_retry"]
  /\ UNCHANGED <<queue, isSyncing, delOp, remote, run, ret, deleteOperationLocked,
                 qda, clr, envConfigured, late, failing, tries, up,
                 importVars>>

\* 1098-1106: the retry deletes the document.
DeleteRetry(d) ==
  /\ del[d].pc = "d_retry"
  /\ del[d].doc \notin failing
  /\ remote[del[d].doc] > 0
  /\ remote' = Removed(remote, del[d].doc)
  /\ del' = [del EXCEPT ![d].pc = "d_progress", ![d].totalDeleted = @ + 1]
  /\ UNCHANGED <<queue, isSyncing, delOp, run, ret, deleteOperationLocked,
                 qda, clr, envConfigured, late, failing, tries, up, env,
                 importVars>>

\* 1107-1113: the retry fails with any error (404 included): the document is
\* given up, nothing is counted.
DeleteRetryFailed(d) ==
  /\ del[d].pc = "d_retry"
  /\ \/ (del[d].doc \in failing \/ remote[del[d].doc] = 0) /\ env' = env
     \/ env.faults > 0 /\ env' = [env EXCEPT !.faults = @ - 1]
  /\ del' = [del EXCEPT ![d].pc = "d_progress", ![d].gaveUp = @ \cup {del[d].doc}]
  /\ UNCHANGED <<queue, isSyncing, delOp, remote, run, ret, deleteOperationLocked,
                 qda, clr, envConfigured, late, failing, tries, up,
                 importVars>>

\* 1126-1140: progress is stored, then the next document is listed.
DeleteProgress(d) ==
  /\ del[d].pc = "d_progress"
  /\ delOp' = UpdateDeleteStatus(delOp, delOp.status, del[d].totalDeleted,
                                 delOp.totalToDelete)
  /\ del' = [del EXCEPT ![d].pc = "d_list", ![d].doc = NoId]
  /\ UNCHANGED <<queue, isSyncing, remote, run, ret, deleteOperationLocked,
                 qda, clr, envConfigured, late, failing, tries, up, env,
                 importVars>>

\* 1023-1027: no document is left: the operation is stored as completed.
DeleteCompleted(d) ==
  /\ del[d].pc = "d_completed"
  /\ delOp' = UpdateDeleteStatus(delOp, "completed", del[d].totalDeleted,
                                 delOp.totalToDelete)
  /\ del' = [del EXCEPT ![d].pc = "d_rm_op"]
  /\ UNCHANGED <<queue, isSyncing, remote, run, ret, deleteOperationLocked,
                 qda, clr, envConfigured, late, failing, tries, up, env,
                 importVars>>

\* 1056: the delete operation is removed.
DeleteRemoveOp(d) ==
  /\ del[d].pc = "d_rm_op"
  /\ delOp' = NoDelete
  /\ del' = [del EXCEPT ![d].pc = "d_rm_queue"]
  /\ UNCHANGED <<queue, isSyncing, remote, run, ret, deleteOperationLocked,
                 qda, clr, envConfigured, late, failing, tries, up, env,
                 importVars>>

\* 1057: the sync queue is removed.
DeleteRemoveQueue(d) ==
  /\ del[d].pc = "d_rm_queue"
  /\ queue' = EmptyQueue
  /\ del' = [del EXCEPT ![d].pc = "d_reset"]
  /\ UNCHANGED <<isSyncing, delOp, remote, run, ret, deleteOperationLocked,
                 qda, clr, envConfigured, late, failing, tries, up, env,
                 importVars>>

\* 1058-1061, 1172-1175: the sync status is reset and the lock freed.
DeleteFinish(d) ==
  /\ del[d].pc = "d_reset"
  /\ isSyncing' = FALSE
  /\ del' = [del EXCEPT ![d] = IdleDelete]
  /\ deleteOperationLocked' = FALSE
  /\ UNCHANGED <<queue, delOp, remote, run, ret, qda, clr, envConfigured, late,
                 failing, tries, up, env,
                 importVars>>

\* 1141-1149: the outer catch stores the operation as failed.
DeleteFailed(d) ==
  /\ del[d].pc = "d_failed"
  /\ delOp' = UpdateDeleteStatus(delOp, "failed", 0, delOp.totalToDelete)
  /\ del' = [del EXCEPT ![d].pc = "d_failed_end"]
  /\ UNCHANGED <<queue, isSyncing, remote, run, ret, deleteOperationLocked,
                 qda, clr, envConfigured, late, failing, tries, up, env,
                 importVars>>

\* 1150-1175: the failure is notified and the lock freed.
DeleteFailedReturn(d) ==
  /\ del[d].pc = "d_failed_end"
  /\ del' = [del EXCEPT ![d] = IdleDelete]
  /\ deleteOperationLocked' = FALSE
  /\ UNCHANGED <<queue, isSyncing, delOp, remote, run, ret, qda, clr,
                 envConfigured, late, failing, tries, up, env,
                 importVars>>

(***************************************************************************)
(* resetSyncStatus (syncQueue.ts 177-188), callable at any time.           *)
(***************************************************************************)
ResetSyncStatus ==
  /\ up
  /\ env.resets > 0
  /\ env' = [env EXCEPT !.resets = @ - 1]
  /\ isSyncing' = FALSE
  /\ UNCHANGED <<queue, delOp, remote, run, ret, del, deleteOperationLocked,
                 qda, clr, envConfigured, late, failing, tries, up,
                 importVars>>

(***************************************************************************)
(* Process kill and restart.                                               *)
(***************************************************************************)
InFlight == UNION {run[r].wait : r \in Runs}

DeletesInFlight ==
  {del[d].doc : d \in {e \in DelRuns : del[e].pc \in {"d_delete", "d_retry"}}} \ failing

RECURSIVE Landed(_, _)
Landed(rem, S) ==
  IF S = {} THEN rem
  ELSE LET x == Min(S) IN Landed(CreateEffect(rem, x, CustomId(x)), S \ {x})

\* The process is killed: everything in memory is lost (runs, timers, the
\* delete lock), so nothing but a call made after the restart can act; creates
\* already sent may still reach the store.
Crash ==
  /\ up
  /\ env.crashes > 0
  /\ env' = [env EXCEPT !.crashes = @ - 1]
  /\ up' = FALSE
  /\ \E S \in SUBSET InFlight : remote' = Landed(remote, S)
  /\ run' = [r \in Runs |-> IdleRun]
  /\ ret' = [r \in Runs |-> NoRet]
  /\ \E L \in SUBSET DeletesInFlight : late' = late \cup L
  /\ del' = [d \in DelRuns |-> IdleDelete]
  /\ deleteOperationLocked' = FALSE
  /\ qda' = NoQda
  /\ clr' = NoClear
  /\ UNCHANGED <<queue, isSyncing, delOp, envConfigured, failing, tries,
                 importVars>>

\* syncQueue.ts 223-253
InitializeSyncStatusQueue(q, syncing) == IF syncing THEN ResetSyncing(q) ELSE q

\* part_002 1181-1195
InitializeDeleteStatus(op) ==
  IF op.status = "in-progress" THEN [op EXCEPT !.status = "pending"] ELSE op

\* The app starts: initializeSyncStatus and initializeDeleteStatus run before
\* any other operation.
Restart ==
  /\ ~up
  /\ up' = TRUE
  /\ queue' = InitializeSyncStatusQueue(queue, isSyncing)
  /\ isSyncing' = FALSE
  /\ delOp' = InitializeDeleteStatus(delOp)
  /\ UNCHANGED <<remote, run, ret, del, deleteOperationLocked, qda, clr,
                 envConfigured, late, failing, tries, env,
                 importVars>>

\* The steps of a run that do not depend on a delete operation.
SyncCore(r) ==
  \/ StartSync(r) \/ SyncReadQueue(r) \/ SyncEmpty(r)
  \/ SyncSetStatus(r) \/ SyncMark(r) \/ SyncGroup(r)
  \/ BatchSuccessRead(r) \/ BatchSuccessWrite(r) \/ NextBatch(r)
  \/ FinalRead(r) \/ FinalWrite(r) \/ CatchRead(r) \/ CatchWrite(r)
  \/ EndStatus(r) \/ EndReturn(r)
  \/ \E x \in Items : CreateAnswered(r, x) \/ CreateNetworkError(r, x) \/ CreateRefused(r, x)

\* The steps a run takes only when a delete operation is stored.
SyncCancelled(r) ==
  \/ SyncBlocked(r) \/ CancelPoll(r)
  \/ CancelRead(r) \/ CancelWrite(r) \/ CancelReturn(r)

SyncStep(r) == SyncCore(r) \/ SyncCancelled(r)

ClearStep == ClearRead \/ ClearWrite

QdaStep == (\E u \in Users : QueueDeleteAll(u)) \/ QdaRemoveQueue \/ QdaResetStatus

\* The steps of a delete run whose remote calls are answered or refused.
DeleteStep(d) ==
  \/ StartDelete(d) \/ DeleteRead(d) \/ DeleteCount(d) \/ DeleteBegin(d)
  \/ DeleteList(d) \/ DeleteDocument(d) \/ DeleteRefused(d) \/ DeleteProgress(d)
  \/ DeleteCompleted(d) \/ DeleteRemoveOp(d) \/ DeleteRemoveQueue(d)
  \/ DeleteFinish(d)

\* The steps taken on the other answers of the remote store, and a call that
\* finds the lock held.
DeleteFaultStep(d) ==
  \/ DeleteLockedOut(d) \/ DeleteCountFailed(d) \/ DeleteListFailed(d)
  \/ DeleteTimedOut(d) \/ DeleteRateLimited(d) \/ DeleteRetry(d)
  \/ DeleteRetryFailed(d) \/ DeleteFailed(d) \/ DeleteFailedReturn(d)

(***************************************************************************)
(* Balance reconciliation of the Revolut import                            *)
(* (src/app/category-transactions.tsx 443-557, handleContinue).  A parsed  *)
(* row is [accountKey, state, balance, amount, date]: accountKey is what   *)
(* resolveAccountInfo answers for the row, balance and amount are in       *)
(* cents, date is completedDate || startedDate.                           *)
(***************************************************************************)
AccountKeys == {"revolut-current-eur", "revolut-pocket-eur-holiday"}

\* 460: a row whose balance field is empty.
NoBalance == -1

\* Balance and date of the completed rows of a statement; two of them share
\* the latest date.
Statement == {<<100, 1>>, <<150, 2>>, <<90, 3>>, <<150, 3>>}

\* The rows a parsed batch is made of: completed rows carry a balance and
\* an amount, pending rows an amount and a balance that is not to be used,
\* reverted rows no balance.
ParsedRows ==
  {[accountKey |-> a, state |-> "COMPLETED", balance |-> bt[1], amount |-> 5,
    date |-> bt[2]] : a \in AccountKeys, bt \in Statement}
  \cup
  {[accountKey |-> a, state |-> "PENDING", balance |-> 150, amount |-> m,
    date |-> 4] : a \in AccountKeys, m \in {0 - 20, 35}}
  \cup
  {[accountKey |-> a, state |-> "REVERTED", balance |-> NoBalance, amount |-> 7,
    date |-> 4] : a \in AccountKeys}

Batches == UNION {[1..n -> ParsedRows] : n \in 0..MaxRows}

\* 443-455: no account has an entry in the map yet.
NoAccountBalances ==
  [a \in AccountKeys |-> [set |-> FALSE, balance |-> 0, lastDateISO |-> 0]]

\* A comparison that lets a row of the same date replace the entry.
IsLaterOrSame(date, existing) == ~existing.set \/ date >= existing.lastDateISO

\* 499: the row replaces the entry when there is none or its date is later.
IsLater(date, existing) == ~existing.set \/ date > existing.lastDateISO

\* 459-507: the first pass over rows 1..i: the balance of the latest
\* completed row of every account.
RECURSIVE FirstPass(_, _)
FirstPass(rows, i) ==
  IF i = 0 THEN NoAccountBalances
  ELSE LET accountBalances == FirstPass(rows, i - 1)
           transaction == rows[i]
       IN IF transaction.balance = NoBalance THEN accountBalances
          ELSE IF transaction.state # "COMPLETED" THEN accountBalances
          ELSE IF IsLater(transaction.date, accountBalances[transaction.accountKey])
          THEN [accountBalances EXCEPT ![transaction.accountKey] =
                  [set |-> TRUE, balance |-> transaction.balance,
                   lastDateISO |-> transaction.date]]
          ELSE accountBalances

\* 510-532: the second pass over rows 1..i: the pending amounts of every
\* account added up.
RECURSIVE SecondPass(_, _)
SecondPass(rows, i) ==
  IF i = 0 THEN [a \in AccountKeys |-> 0]
  ELSE LET pendingAdjustments == SecondPass(rows, i - 1)
           transaction == rows[i]
       IN IF transaction.state # "PENDING" THEN pendingAdjustments
          ELSE [pendingAdjustments EXCEPT ![transaction.accountKey] =
                  @ + transaction.amount]

\* 534-540: the adjustments are applied to the accounts that have an entry.
FinalBalances(rows) ==
  LET accountBalances == FirstPass(rows, Len(rows))
      pendingAdjustments == SecondPass(rows, Len(rows))
  IN [a \in AccountKeys |->
        IF accountBalances[a].set
        THEN [accountBalances[a] EXCEPT !.balance = @ + pendingAdjustments[a]]
        ELSE accountBalances[a]]

NoSaved == [a \in AccountKeys |-> [saved |-> FALSE, balance |-> 0]]

\* 388-392, 457-568: a batch with rows is reconciled, the balance of every
\* account with an entry is saved, and the preview is shown.
HandleContinue ==
  /\ imp = "paste"
  /\ Len(parseResult) > 0
  /\ LET final == FinalBalances(parseResult)
     IN balances' = [a \in AccountKeys |->
                       IF final[a].set
                       THEN [saved |-> TRUE, balance |-> final[a].balance]
                       ELSE balances[a]]
  /\ imp' = "preview"
  /\ UNCHANGED <<queue, isSyncing, delOp, remote, run, ret, del,
                 deleteOperationLocked, qda, clr, envConfigured, up, tries,
                 late, failing, env, parseResult, balanceVars, learnVars, detailVars,
                 lateVars>>

\* 388-392: a batch without rows is refused.
HandleContinueEmpty ==
  /\ imp = "paste"
  /\ Len(parseResult) = 0
  /\ imp' = "refused"
  /\ UNCHANGED <<queue, isSyncing, delOp, remote, run, ret, del,
                 deleteOperationLocked, qda, clr, envConfigured, up, tries,
                 late, failing, env, parseResult, balances, balanceVars,
                 learnVars, detailVars, lateVars>>

(***************************************************************************)
(* Remote account balances (src/lib/appwrite.ts 221-398).  A document is   *)
(* [accountKey, balance, previousBalance, previousBalanceTimestamp,        *)
(* importBatchId]; its place in balanceDocs is its $id.  All documents     *)
(* belong to one user.                                                     *)
(***************************************************************************)
Upserters == {"p1", "p2"}
ImportBatchIds == {"b1", "b2"}
NoBatch == "none"
\* previousBalance: null
NoPrevious == -1
NewBalances == {10, 25}

\* 233-239, 332-338: listDocuments(accountKey, limit 1): the $id of the first
\* document of the account, 0 when there is none.
FindDoc(docs, key) ==
  IF \E i \in 1..Len(docs) : docs[i].accountKey = key
  THEN Min({i \in 1..Len(docs) : docs[i].accountKey = key})
  ELSE 0

\* 241-257: the document found is updated with the payload, else a document
\* with a fresh id is created.
Upserted(docs, doc, key, balance) ==
  IF doc > 0
  THEN [docs EXCEPT ![doc].accountKey = key, ![doc].balance = balance]
  ELSE Append(docs, [accountKey |-> key, balance |-> balance,
                     previousBalance |-> NoPrevious, previousBalanceTimestamp |-> 0,
                     importBatchId |-> NoBatch])

IdleUpsert == [pc |-> "idle", accountKey |-> "", balance |-> 0, doc |-> 0, calls |-> 0]

\* 221-239: upsertAccountBalance lists the documents of the account.
UpsertList(p, key, balance) ==
  /\ upsert[p].pc = "idle"
  /\ upsert[p].calls < MaxUpserts
  /\ upsert' = [upsert EXCEPT ![p] =
                  [pc |-> "p_write", accountKey |-> key, balance |-> balance,
                   doc |-> FindDoc(balanceDocs, key), calls |-> @.calls + 1]]
  /\ UNCHANGED <<queueVars, otherVars, balanceDocs, bimp, undo>>

\* 241-257: the document is updated or created.
UpsertWrite(p) ==
  /\ upsert[p].pc = "p_write"
  /\ balanceDocs' = Upserted(balanceDocs, upsert[p].doc, upsert[p].accountKey,
                             upsert[p].balance)
  /\ upsert' = [upsert EXCEPT ![p].pc = "idle"]
  /\ UNCHANGED <<queueVars, otherVars, bimp, undo>>

\* The balance of the account before an import, NoBalance without document.
BalanceOf(docs, key) ==
  IF FindDoc(docs, key) = 0 THEN NoBalance ELSE docs[FindDoc(docs, key)].balance

\* The accounts in the order the import goes through them.
AccountOrder == <<"revolut-current-eur", "revolut-pocket-eur-holiday">>

IdleBalanceImport ==
  [pc |-> "idle", importBatchId |-> NoBatch, accounts |-> <<>>, i |-> 0,
   balance |-> 0, doc |-> 0, current |-> 0,
   pre |-> [k \in AccountKeys |-> NoBalance]]

\* The import of a batch begins: it will save a snapshot of the balances of
\* the accounts it touches and then upsert their new balance.
ImportBalances(b, A, balance) ==
  /\ bimp.pc = "idle"
  /\ A # {}
  /\ bimp' = [pc |-> "s_list", importBatchId |-> b,
              accounts |-> SelectSeq(AccountOrder, LAMBDA k : k \in A), i |-> 1,
              balance |-> balance, doc |-> 0, current |-> 0,
              pre |-> [k \in AccountKeys |-> BalanceOf(balanceDocs, k)]]
  /\ UNCHANGED <<queueVars, otherVars, balanceDocs, upsert, undo>>

\* 330-340: saveBalanceSnapshotToAppwrite lists the document of the next
\* account; an account without document is passed over.
SnapshotList ==
  /\ bimp.pc = "s_list"
  /\ IF bimp.i > Len(bimp.accounts)
     THEN bimp' = [bimp EXCEPT !.pc = "i_list", !.i = 1]
     ELSE LET doc == FindDoc(balanceDocs, bimp.accounts[bimp.i])
          IN bimp' = IF doc = 0 THEN [bimp EXCEPT !.i = @ + 1]
                     ELSE [bimp EXCEPT !.pc = "s_update", !.doc = doc,
                                       !.current = balanceDocs[doc].balance]
  /\ UNCHANGED <<queueVars, otherVars, balanceDocs, upsert, undo>>

\* 341-347: the balance handed in, the current balance of the account, is
\* stored as previousBalance, with the batch.
SnapshotUpdate ==
  /\ bimp.pc = "s_update"
  /\ balanceDocs' = [balanceDocs EXCEPT
                       ![bimp.doc].previousBalance = bimp.current,
                       ![bimp.doc].previousBalanceTimestamp = 1,
                       ![bimp.doc].importBatchId = bimp.importBatchId]
  /\ bimp' = [bimp EXCEPT !.pc = "s_list", !.i = @ + 1]
  /\ UNCHANGED <<queueVars, otherVars, upsert, undo>>

\* 221-239: the import upserts the balance of the next account.
ImportUpsertList ==
  /\ bimp.pc = "i_list"
  /\ bimp' = IF bimp.i > Len(bimp.accounts) THEN [bimp EXCEPT !.pc = "done"]
             ELSE [bimp EXCEPT !.pc = "i_write",
                               !.doc = FindDoc(balanceDocs, bimp.accounts[bimp.i])]
  /\ UNCHANGED <<queueVars, otherVars, balanceDocs, upsert, undo>>

\* 241-257
ImportUpsertWrite ==
  /\ bimp.pc = "i_write"
  /\ balanceDocs' = Upserted(balanceDocs, bimp.doc, bimp.accounts[bimp.i],
                             bimp.balance)
  /\ bimp' = [bimp EXCEPT !.pc = "i_list", !.i = @ + 1]
  /\ UNCHANGED <<queueVars, otherVars, upsert, undo>>

(***************************************************************************)
(* restoreBalancesFromSnapshot (src/lib/appwrite.ts 361-398).              *)
(*   listed    the documents of the batch as the listing returned them     *)
(*   todo      the listed documents not yet gone through                   *)
(*   restored  the documents updated                                       *)
(*   result    what the last call returned                                 *)
(*   afterImport  the call was made after the import had finished          *)
(*   handler   the restore was called by handleUndoLastImport              *)
(*   batch     the transactions of the batch listed and not yet deleted    *)
(*   deleted   the transactions deleted                                    *)
(*   undone    handleUndoLastImport has deleted and restored               *)
(***************************************************************************)
IdleUndo == [pc |-> "idle", importBatchId |-> NoBatch, listed |-> <<>>,
             todo |-> {}, restored |-> 0, result |-> FALSE, calls |-> 0,
             afterImport |-> FALSE, handler |-> FALSE, batch |-> {},
             deleted |-> 0, undone |-> FALSE]

\* 365-368
Tagged(docs, b) == {i \in 1..Len(docs) : docs[i].importBatchId = b}

\* A restore that keeps the snapshot fields.
RestoredKeepSnapshot(docs, i, listed) ==
  [docs EXCEPT ![i].balance = listed[i].previousBalance]

\* 379-385: the balance is put back and the snapshot fields are cleared.
Restored(docs, i, listed) ==
  [docs EXCEPT ![i].balance = listed[i].previousBalance,
               ![i].previousBalance = NoPrevious,
               ![i].previousBalanceTimestamp = 0,
               ![i].importBatchId = NoBatch]

\* 361-368: restoreBalancesFromSnapshot(userId, b) lists the documents of
\* the batch.
RestoreCall(b) ==
  /\ undo.pc = "idle"
  /\ undo.calls < MaxUndos
  /\ undo' = [undo EXCEPT !.pc = "r_list", !.importBatchId = b,
                          !.calls = @ + 1, !.afterImport = (bimp.pc = "done")]
  /\ UNCHANGED <<queueVars, otherVars, balanceDocs, upsert, bimp>>

\* 365-374: the listing is answered; with no document the call returns false.
RestoreList ==
  /\ undo.pc = "r_list"
  /\ LET T == Tagged(balanceDocs, undo.importBatchId)
     IN undo' = IF T = {}
                THEN [undo EXCEPT !.pc = "idle", !.result = FALSE,
                                  !.listed = <<>>, !.todo = {}, !.restored = 0,
                                  !.undone = undo.handler, !.handler = FALSE]
                ELSE [undo EXCEPT !.pc = "r_update", !.listed = balanceDocs,
                                  !.todo = T, !.restored = 0]
  /\ UNCHANGED <<queueVars, otherVars, balanceDocs, upsert, bimp>>

\* 377-388: the next listed document that has a previousBalance is updated.
RestoreUpdate ==
  /\ undo.pc = "r_update"
  /\ undo.todo # {}
  /\ LET i == Min(undo.todo)
     IN IF undo.listed[i].previousBalance # NoPrevious
        THEN /\ balanceDocs' = Restored(balanceDocs, i, undo.listed)
             /\ undo' = [undo EXCEPT !.todo = @ \ {i}, !.restored = @ + 1]
        ELSE /\ balanceDocs' = balanceDocs
             /\ undo' = [undo EXCEPT !.todo = @ \ {i}]
  /\ UNCHANGED <<queueVars, otherVars, upsert, bimp>>

\* 390-392: the call returns whether a document was restored.
RestoreReturn ==
  /\ undo.pc = "r_update"
  /\ undo.todo = {}
  /\ undo' = [undo EXCEPT !.pc = "idle", !.result = (undo.restored > 0),
                          !.undone = undo.handler, !.handler = FALSE]
  /\ UNCHANGED <<queueVars, otherVars, balanceDocs, upsert, bimp>>

(***************************************************************************)
(* handleUndoLastImport (src/app/profile.tsx 98-125) with                  *)
(* getLastImportBatchId and deleteTransactionsByBatchId                    *)
(* (src/lib/appwrite.ts 893-976).  The queued transactions 1..NumItems are *)
(* the rows of one import and carry its importBatchId.                     *)
(***************************************************************************)
ImportBatchOf(x) == "b1"

\* 929 (getTransactionsByBatchId): the remote transactions of the batch.
TransactionsOf(rem, b) == {x \in Items : rem[x] > 0 /\ ImportBatchOf(x) = b}

\* profile.tsx 98-101: Undo Import is pressed.
UndoStart ==
  /\ up
  /\ undo.pc = "idle"
  /\ undo.calls < MaxUndos
  /\ undo' = [undo EXCEPT !.pc = "u_last", !.calls = @ + 1, !.handler = TRUE,
                          !.undone = FALSE, !.deleted = 0,
                          !.afterImport = (bimp.pc = "done")]
  /\ UNCHANGED <<queueVars, otherVars, balanceDocs, upsert, bimp>>

\* profile.tsx 101-106, appwrite.ts 897-910: the batch of the newest remote
\* transaction; without one there is nothing to undo.
UndoLastBatch ==
  /\ undo.pc = "u_last"
  /\ undo' = IF \E x \in Items : remote[x] > 0
             THEN [undo EXCEPT !.pc = "u_list",
                     !.importBatchId =
                        ImportBatchOf(CHOOSE x \in Items : remote[x] > 0)]
             ELSE [undo EXCEPT !.pc = "idle", !.handler = FALSE]
  /\ UNCHANGED <<queueVars, otherVars, balanceDocs, upsert, bimp>>

\* appwrite.ts 959, 919-946: the remote transactions of the batch are listed.
UndoListTransactions ==
  /\ undo.pc = "u_list"
  /\ undo' = [undo EXCEPT !.pc = "u_delete",
                          !.batch = TransactionsOf(remote, undo.importBatchId)]
  /\ UNCHANGED <<queueVars, otherVars, balanceDocs, upsert, bimp>>

\* appwrite.ts 961-964: the next listed transaction is deleted.
UndoDelete ==
  /\ undo.pc = "u_delete"
  /\ undo.batch # {}
  /\ LET x == Min(undo.batch)
     IN /\ remote' = Removed(remote, x)
        /\ undo' = [undo EXCEPT !.batch = @ \ {x}, !.deleted = @ + 1]
  /\ UNCHANGED <<queue, isSyncing, delOp, run, ret, del, deleteOperationLocked,
                 qda, clr, envConfigured, up, tries, late, failing, env,
                 otherVars, balanceDocs, upsert, bimp>>

\* appwrite.ts 972, profile.tsx 109-113: all are deleted; the balances of
\* the batch are restored next.
UndoRestore ==
  /\ undo.pc = "u_delete"
  /\ undo.batch = {}
  /\ undo' = [undo EXCEPT !.pc = "r_list"]
  /\ UNCHANGED <<queueVars, otherVars, balanceDocs, upsert, bimp>>

UndoStep ==
  \/ UndoStart \/ UndoLastBatch \/ UndoListTransactions \/ UndoDelete
  \/ UndoRestore \/ RestoreList \/ RestoreUpdate \/ RestoreReturn

\* Nothing is going on in the balance collection.
BalancesIdle ==
  /\ balanceDocs = <<>>
  /\ upsert = [p \in Upserters |-> IdleUpsert]
  /\ bimp = IdleBalanceImport
  /\ undo = IdleUndo

(***************************************************************************)
(* Merchant votes (src/unnamed/part_002 340-540).  A title is a sequence   *)
(* of characters; a vote document is [merchant_key, category_id, votes].   *)
(***************************************************************************)
Learners == {"l1", "l2"}
CategoryIds == {"catA", "catB"}

\* 354-356: trim, lower case, drop everything but a-z and 0-9.
LowerCase(c) == IF c = "A" THEN "a" ELSE IF c = "B" THEN "b" ELSE c
RECURSIVE GetMerchantKey(_)
GetMerchantKey(title) ==
  IF title = <<>> THEN <<>>
  ELSE LET c == LowerCase(Head(title))
       IN IF c \in {"a", "b", "0"} THEN <<c>> \o GetMerchantKey(Tail(title))
          ELSE GetMerchantKey(Tail(title))

\* The titles voted on: two spellings of one merchant, and another merchant.
LearnTitles == {<<"A", "b">>, <<"a", "-", "b">>, <<"b", "a">>}

\* 489-492: the vote documents of the pair, in the order listed.
VotesOf(docs, key, categoryId) ==
  {i \in 1..Len(docs) : docs[i].merchant_key = key /\ docs[i].category_id = categoryId}

\* A write that stores one vote whatever was read.
LearnedOverwrite(docs, doc, votes, key, categoryId) ==
  IF doc > 0 THEN [docs EXCEPT ![doc].votes = 1]
  ELSE Append(docs, [merchant_key |-> key, category_id |-> categoryId, votes |-> 1])

\* 494-518: the first document listed gets the votes read plus one (a count
\* of 0 is read as 1); without document one is created with one vote.
Learned(docs, doc, votes, key, categoryId) ==
  IF doc > 0
  THEN [docs EXCEPT ![doc].votes = (IF votes = 0 THEN 1 ELSE votes) + 1]
  ELSE Append(docs, [merchant_key |-> key, category_id |-> categoryId, votes |-> 1])

IdleLearn == [pc |-> "idle", key |-> <<>>, categoryId |-> "", doc |-> 0,
              votes |-> 0, calls |-> 0,
              cast |-> [pr \in {GetMerchantKey(t) : t \in LearnTitles} \X CategoryIds |-> 0]]

\* 484-492: learnMerchantCategory lists the votes of the pair.
LearnList(l, title, categoryId) ==
  /\ learn[l].pc = "idle"
  /\ learn[l].calls < MaxLearns
  /\ LET key == GetMerchantKey(title)
         found == VotesOf(voteDocs, key, categoryId)
         doc == IF found = {} THEN 0 ELSE Min(found)
     IN learn' = [learn EXCEPT ![l].pc = "l_write", ![l].key = key,
                               ![l].categoryId = categoryId, ![l].doc = doc,
                               ![l].votes = IF doc = 0 THEN 0 ELSE voteDocs[doc].votes,
                               ![l].calls = @ + 1]
  /\ UNCHANGED <<queueVars, nonLearnVars, voteDocs, match, cat>>

\* 494-518: the vote is written.
LearnWrite(l) ==
  /\ learn[l].pc = "l_write"
  /\ voteDocs' = Learned(voteDocs, learn[l].doc, learn[l].votes, learn[l].key,
                         learn[l].categoryId)
  /\ learn' = [learn EXCEPT ![l].pc = "idle",
                            ![l].cast[<<learn[l].key, learn[l].categoryId>>] = @ + 1]
  /\ UNCHANGED <<queueVars, nonLearnVars, match, cat>>

LearnStep(l) ==
  \/ \E t \in LearnTitles, c \in CategoryIds : LearnList(l, t, c)
  \/ LearnWrite(l)

(***************************************************************************)
(* Categorization (src/unnamed/part_002 362-462, 541-784).  A learned      *)
(* mapping is a sequence of [key, categoryId] in the order of Object.keys; *)
(* a text is described by the keyword groups it hits; the id of a category *)
(* is written as its slug.                                                 *)
(***************************************************************************)
Chars == {"a", "b"}
NoCategory == ""

RECURSIVE KeysUpTo(_)
KeysUpTo(n) ==
  IF n = 0 THEN {<<>>}
  ELSE KeysUpTo(n - 1) \cup {Append(k, c) : k \in {k \in KeysUpTo(n - 1) : Len(k) = n - 1}, c \in Chars}

MerchantKeys == KeysUpTo(MaxKeyLen)

\* String.prototype.includes.
Includes(s, t) ==
  \E i \in 0..(Len(s) - Len(t)) : SubSeq(s, i + 1, i + Len(t)) = t

\* 385-394 with the guard of the second containment at 4 characters.
SubstringMatchFrom4(storedKey, titleKey) ==
  /\ Len(storedKey) >= 4
  /\ \/ Includes(titleKey, storedKey)
     \/ Len(titleKey) >= 4 /\ Includes(storedKey, titleKey)

\* 383-394: the test of one stored key in the loop.
SubstringMatch(storedKey, titleKey) ==
  /\ Len(storedKey) >= 4
  /\ \/ Includes(titleKey, storedKey)
     \/ Len(titleKey) >= 5 /\ Includes(storedKey, titleKey)

\* 369-398.
FindMatchingCategory(titleKey, learnedMappings) ==
  LET exact == {i \in 1..Len(learnedMappings) : learnedMappings[i].key = titleKey}
      fuzzy == {i \in 1..Len(learnedMappings) :
                  SubstringMatch(learnedMappings[i].key, titleKey)}
  IN IF exact # {} THEN learnedMappings[Min(exact)].categoryId
     ELSE IF fuzzy # {} THEN learnedMappings[Min(fuzzy)].categoryId
     ELSE NoCategory

\* 436-444: the votes of a category of a merchant, summed over its documents.
RECURSIVE TotalVotes(_, _, _)
TotalVotes(docs, key, categoryId) ==
  IF docs = <<>> THEN 0
  ELSE (IF Head(docs).merchant_key = key /\ Head(docs).category_id = categoryId
        THEN Head(docs).votes ELSE 0) + TotalVotes(Tail(docs), key, categoryId)

\* The order in which a Map holds its keys: that of their first insertion.
RECURSIVE FirstSeen(_, _)
FirstSeen(xs, seen) ==
  IF xs = <<>> THEN <<>>
  ELSE IF Head(xs) \in seen THEN FirstSeen(Tail(xs), seen)
  ELSE <<Head(xs)>> \o FirstSeen(Tail(xs), seen \cup {Head(xs)})

MerchantsOf(docs) == FirstSeen([i \in 1..Len(docs) |-> docs[i].merchant_key], {})
CategoriesOf(docs, key) ==
  LET mine == SelectSeq(docs, LAMBDA d : d.merchant_key = key)
  IN FirstSeen([i \in 1..Len(mine) |-> mine[i].category_id], {})

\* 447-455: the first category with more votes than all before it.
RECURSIVE TopCategory(_, _, _, _, _)
TopCategory(docs, key, cs, topCategory, topVotes) ==
  IF cs = <<>> THEN topCategory
  ELSE IF TotalVotes(docs, key, Head(cs)) > topVotes
       THEN TopCategory(docs, key, Tail(cs), Head(cs), TotalVotes(docs, key, Head(cs)))
       ELSE TopCategory(docs, key, Tail(cs), topCategory, topVotes)

\* 431-462: getLearnedMappings over the documents listed.
RECURSIVE MappingsOf(_, _)
MappingsOf(docs, ks) ==
  IF ks = <<>> THEN <<>>
  ELSE LET top == TopCategory(docs, Head(ks), CategoriesOf(docs, Head(ks)), NoCategory, 0)
       IN (IF top # NoCategory THEN <<[key |-> Head(ks), categoryId |-> top]>> ELSE <<>>)
            \o MappingsOf(docs, Tail(ks))

GetLearnedMappings(docs) == MappingsOf(docs, MerchantsOf(docs))

\* 567-702: the keyword groups in the order they are tried; income is tried
\* last and for income transactions only.
RuleOrder == <<"food", "groceries", "transport", "entertainment", "shopping",
               "utilities", "health">>
RuleGroups == {RuleOrder[i] : i \in 1..Len(RuleOrder)} \cup {"income"}
NoKeyword == "null"

MatchKeywordRules(groups, isExpense) ==
  LET hit == {i \in 1..Len(RuleOrder) : RuleOrder[i] \in groups}
  IN IF hit # {} THEN RuleOrder[Min(hit)]
     ELSE IF ~isExpense /\ "income" \in groups THEN "income"
     ELSE NoKeyword

\* 545-561 and 753-760: the category of the slug, else general, else ''.
GetCategoryIdBySlug(categories, slug) ==
  IF slug \in categories THEN slug
  ELSE IF "general" \in categories THEN "general"
  ELSE NoCategory

\* 712-737: categorizeTransaction over the mappings and the category list
\* its two fetches return.
CategorizeTransaction(title, groups, isExpense, learnedMappings, categories) ==
  LET fuzzyMatch == FindMatchingCategory(GetMerchantKey(title), learnedMappings)
      keywordMatch == MatchKeywordRules(groups, isExpense)
  IN IF fuzzyMatch # NoCategory THEN fuzzyMatch
     ELSE IF keywordMatch # NoKeyword THEN GetCategoryIdBySlug(categories, keywordMatch)
     ELSE GetCategoryIdBySlug(categories, "general")

\* The tiers of a batch that takes every row for an expense.
ResolveAsExpense(key, groups, isExpense, learnedMappings, categories) ==
  LET fuzzyMatch == FindMatchingCategory(key, learnedMappings)
      keywordMatch == MatchKeywordRules(groups, TRUE)
  IN IF fuzzyMatch # NoCategory THEN fuzzyMatch
     ELSE IF keywordMatch # NoKeyword THEN GetCategoryIdBySlug(categories, keywordMatch)
     ELSE GetCategoryIdBySlug(categories, "general")

\* 764-782: the tiers of a batch row over data already fetched.
Resolve(key, groups, isExpense, learnedMappings, categories) ==
  LET fuzzyMatch == FindMatchingCategory(key, learnedMappings)
      keywordMatch == MatchKeywordRules(groups, isExpense)
  IN IF fuzzyMatch # NoCategory THEN fuzzyMatch
     ELSE IF keywordMatch # NoKeyword THEN GetCategoryIdBySlug(categories, keywordMatch)
     ELSE GetCategoryIdBySlug(categories, "general")

\* The category tables, vote tables, titles and texts categorized.
AllCategories == RuleGroups \cup {"general"}
CategoryLists == {AllCategories, AllCategories \ {"food"}}
StoredKeys == {<<"a", "b", "a", "b">>, <<"a", "b", "a", "b", "a", "b">>}
VoteDocs == [merchant_key : StoredKeys, category_id : CategoryIds, votes : 0..2]
RECURSIVE VoteTablesUpTo(_)
VoteTablesUpTo(n) ==
  IF n = 0 THEN {<<>>}
  ELSE VoteTablesUpTo(n - 1)
         \cup {Append(t, d) : t \in {t \in VoteTablesUpTo(n - 1) : Len(t) = n - 1}, d \in VoteDocs}
VoteTables == VoteTablesUpTo(MaxVoteDocs)
Titles == {<<"A", "b", "a", "b">>, <<"a", "b", "a", "b", "-", "a">>,
           <<"b", "a", "b", "a", "b">>, <<"b", "a", "b", "a">>, <<"a", "b">>}
Texts == {g \in SUBSET RuleGroups : Cardinality(g) <= MaxGroups}
BatchRows == [title : {<<"A", "b", "a", "b">>, <<"a", "b">>},
              groups : {{}, {"food"}, {"income"}}, isExpense : BOOLEAN]
RECURSIVE BatchesUpTo(_)
BatchesUpTo(n) ==
  IF n = 0 THEN {<<>>}
  ELSE BatchesUpTo(n - 1)
         \cup {Append(t, r) : t \in {t \in BatchesUpTo(n - 1) : Len(t) = n - 1}, r \in BatchRows}

IdleMatch == [storedKey |-> <<>>, titleKey |-> <<>>, result |-> NoCategory, done |-> FALSE]

\* findMatchingCategory is applied to a mapping of one stored key.
FindMatching ==
  /\ ~match.done
  /\ match' = [match EXCEPT !.done = TRUE,
                 !.result = FindMatchingCategory(match.titleKey,
                              <<[key |-> match.storedKey, categoryId |-> "catA"]>>)]
  /\ UNCHANGED <<queueVars, nonLearnVars, voteDocs, learn, cat>>

IdleCat == [pc |-> "idle", kind |-> "none", rows |-> <<>>, slug |-> "",
            categories |-> AllCategories, results |-> <<>>,
            categoryFetches |-> 0, mappingFetches |-> 0]

\* 712-719: categorizeTransaction asks for the learned mappings.
CategorizeCall(title, groups, isExpense) ==
  /\ cat.pc = "idle"
  /\ cat' = [cat EXCEPT !.pc = "c_mappings", !.kind = "single",
               !.rows = <<[title |-> title, groups |-> groups, isExpense |-> isExpense]>>]
  /\ UNCHANGED <<queueVars, nonLearnVars, voteDocs, learn, match>>

\* The mappings arrive, and the keyword rules are tried before them.
CategorizeMappingsKeywordFirst ==
  /\ cat.pc = "c_mappings"
  /\ LET row == cat.rows[1]
         fuzzyMatch == FindMatchingCategory(GetMerchantKey(row.title),
                                            GetLearnedMappings(voteDocs))
         keywordMatch == MatchKeywordRules(row.groups, row.isExpense)
         learned == keywordMatch = NoKeyword /\ fuzzyMatch # NoCategory
     IN cat' = [cat EXCEPT !.mappingFetches = @ + 1,
                  !.pc = IF learned THEN "done" ELSE "c_slug",
                  !.results = IF learned THEN <<fuzzyMatch>> ELSE <<>>,
                  !.slug = IF keywordMatch # NoKeyword THEN keywordMatch ELSE "general"]
  /\ UNCHANGED <<queueVars, nonLearnVars, voteDocs, learn, match>>

\* 719-736: the mappings arrive; a learned match is returned, otherwise the
\* category of the keyword or of general is looked up.
CategorizeMappings ==
  /\ cat.pc = "c_mappings"
  /\ LET row == cat.rows[1]
         fuzzyMatch == FindMatchingCategory(GetMerchantKey(row.title),
                                            GetLearnedMappings(voteDocs))
         keywordMatch == MatchKeywordRules(row.groups, row.isExpense)
     IN cat' = [cat EXCEPT !.mappingFetches = @ + 1,
                  !.pc = IF fuzzyMatch # NoCategory THEN "done" ELSE "c_slug",
                  !.results = IF fuzzyMatch # NoCategory THEN <<fuzzyMatch>> ELSE <<>>,
                  !.slug = IF keywordMatch # NoKeyword THEN keywordMatch ELSE "general"]
  /\ UNCHANGED <<queueVars, nonLearnVars, voteDocs, learn, match>>

\* 545-561: getCategoryIdBySlug fetches the categories and answers.
CategorizeSlug ==
  /\ cat.pc = "c_slug"
  /\ cat' = [cat EXCEPT !.pc = "done", !.categoryFetches = @ + 1,
               !.results = <<GetCategoryIdBySlug(cat.categories, cat.slug)>>]
  /\ UNCHANGED <<queueVars, nonLearnVars, voteDocs, learn, match>>

\* 743-750: batchCategorizeTransactions asks for categories and mappings.
BatchCall(rows) ==
  /\ cat.pc = "idle"
  /\ cat' = [cat EXCEPT !.pc = "b_fetch", !.kind = "batch", !.rows = rows]
  /\ UNCHANGED <<queueVars, nonLearnVars, voteDocs, learn, match>>

\* A batch that categorizes its rows one call of categorizeTransaction each.
BatchFetchPerRow ==
  /\ cat.pc = "b_fetch"
  /\ LET learnedMappings == GetLearnedMappings(voteDocs)
         unlearned == {i \in 1..Len(cat.rows) :
                         FindMatchingCategory(GetMerchantKey(cat.rows[i].title),
                                              learnedMappings) = NoCategory}
     IN cat' = [cat EXCEPT !.pc = "done",
                  !.categoryFetches = @ + Cardinality(unlearned),
                  !.mappingFetches = @ + Len(cat.rows),
                  !.results = [i \in 1..Len(cat.rows) |->
                                 Resolve(GetMerchantKey(cat.rows[i].title), cat.rows[i].groups,
                                         cat.rows[i].isExpense, learnedMappings,
                                         cat.categories)]]
  /\ UNCHANGED <<queueVars, nonLearnVars, voteDocs, learn, match>>

\* 747-783: both arrive; every row is categorized from them.
BatchFetch ==
  /\ cat.pc = "b_fetch"
  /\ LET learnedMappings == GetLearnedMappings(voteDocs)
     IN cat' = [cat EXCEPT !.pc = "done",
                  !.categoryFetches = @ + 1,
                  !.mappingFetches = @ + 1,
                  !.results = [i \in 1..Len(cat.rows) |->
                                 Resolve(GetMerchantKey(cat.rows[i].title), cat.rows[i].groups,
                                         cat.rows[i].isExpense, learnedMappings,
                                         cat.categories)]]
  /\ UNCHANGED <<queueVars, nonLearnVars, voteDocs, learn, match>>

(***************************************************************************)
(* The transaction-detail screen (src/app/transaction-detail.tsx 84-456).  *)
(* A copy of the transaction is [excludeFromAnalytics, isAnalyticsProtected,*)
(* matchedTransferId], the last one as whether it is set.                  *)
(***************************************************************************)
Flags == [excludeFromAnalytics : BOOLEAN, isAnalyticsProtected : BOOLEAN,
          matchedTransferId : BOOLEAN]
NoFlags == [excludeFromAnalytics |-> FALSE, isAnalyticsProtected |-> FALSE,
            matchedTransferId |-> FALSE]
NoTx == [queued |-> FALSE, inRemote |-> FALSE, q |-> NoFlags, r |-> NoFlags]

IdleDetail == [pc |-> "idle", transaction |-> NoFlags, loaded |-> FALSE,
               dbTx |-> NoFlags, isQueued |-> FALSE,
               editedExcludeFromAnalytics |-> FALSE, isQueuedTransaction |-> FALSE,
               isEditing |-> FALSE, newValue |-> FALSE,
               faults |-> 0, loads |-> 0, edits |-> 0,
               refused |-> FALSE, savedProtected |-> FALSE]

DetailIdle ==
  /\ tx = NoTx
  /\ detail = IdleDetail

\* The copy written by a handler: the queue item or the remote document.
Written(t, isQueued, flags) ==
  IF isQueued THEN (IF t.queued THEN [t EXCEPT !.q = flags] ELSE t)
  ELSE [t EXCEPT !.r = flags]

\* syncQueue.ts 385-387: a sync run uploads the queued transaction with its
\* flags (createBulkTransactions, appwrite.ts 810-828) and completes the item.
DetailSync ==
  /\ tx.queued
  /\ ~tx.inRemote
  /\ tx' = [tx EXCEPT !.queued = FALSE, !.inRemote = TRUE, !.r = tx.q]
  /\ UNCHANGED <<queueVars, nonDetailVars, detail>>

\* 84-107: loadTransaction asks for the document.
LoadStart ==
  /\ detail.pc = "idle"
  /\ detail.loads < MaxLoads
  /\ detail' = [detail EXCEPT !.pc = "l_get", !.loads = @ + 1]
  /\ UNCHANGED <<queueVars, nonDetailVars, tx>>

\* 184-196: the screen takes over what was loaded.
Shown(d, dbTx, isQueued) ==
  [d EXCEPT !.pc = "idle", !.transaction = dbTx, !.loaded = TRUE,
            !.editedExcludeFromAnalytics = dbTx.excludeFromAnalytics,
            !.isQueuedTransaction = isQueued, !.dbTx = NoFlags, !.isQueued = FALSE]

\* 155-157: a transfer flag without matched transfer is to be removed.
AfterLoaded(d, dbTx, isQueued) ==
  IF dbTx.isAnalyticsProtected /\ ~dbTx.matchedTransferId
  THEN [d EXCEPT !.pc = "l_clear", !.dbTx = dbTx, !.isQueued = isQueued]
  ELSE Shown(d, dbTx, isQueued)

\* 109-137: the document is answered, or the request fails and the queue is
\* looked at.
LoadGet ==
  /\ detail.pc = "l_get"
  /\ \/ /\ tx.inRemote
        /\ detail' = AfterLoaded(detail, tx.r, FALSE)
     \/ /\ ~tx.inRemote \/ detail.faults < MaxDetailFaults
        /\ detail' = [detail EXCEPT !.pc = "l_queue",
                        !.faults = IF tx.inRemote THEN @ + 1 ELSE @]
  /\ UNCHANGED <<queueVars, nonDetailVars, tx>>

\* 138-152, 197-201: the queue holds the transaction, or the load fails and
\* the screen keeps what it showed.
LoadQueue ==
  /\ detail.pc = "l_queue"
  /\ detail' = IF tx.queued THEN AfterLoaded(detail, tx.q, TRUE)
               ELSE [detail EXCEPT !.pc = "idle"]
  /\ UNCHANGED <<queueVars, nonDetailVars, tx>>

\* 157-187: both flags are removed from the copy loaded, and from the screen
\* unless the write failed.
LoadClear ==
  /\ detail.pc = "l_clear"
  /\ \/ LET updated == [detail.dbTx EXCEPT !.isAnalyticsProtected = FALSE,
                                           !.excludeFromAnalytics = FALSE]
        IN /\ tx' = Written(tx, detail.isQueued,
                            [(IF detail.isQueued THEN tx.q ELSE tx.r)
                               EXCEPT !.isAnalyticsProtected = FALSE,
                                      !.excludeFromAnalytics = FALSE])
           /\ detail' = Shown(detail, updated, detail.isQueued)
     \/ /\ detail.faults < MaxDetailFaults
        /\ detail' = [Shown(detail, detail.dbTx, detail.isQueued)
                        EXCEPT !.faults = detail.faults + 1]
        /\ tx' = tx
  /\ UNCHANGED <<queueVars, nonDetailVars>>

\* 403-414: the toggle of a protected transaction is refused.
ToggleRefused ==
  /\ detail.pc = "idle"
  /\ detail.loaded
  /\ detail.transaction.isAnalyticsProtected
  /\ ~detail.refused
  /\ detail' = [detail EXCEPT !.refused = TRUE]
  /\ UNCHANGED <<queueVars, nonDetailVars, tx>>

\* The toggle without the test of the protection.
ToggleUnguarded ==
  /\ detail.pc = "idle"
  /\ detail.loaded
  /\ detail.edits < MaxEdits
  /\ detail' = [detail EXCEPT !.pc = "t_write", !.edits = @ + 1,
                  !.newValue = ~detail.editedExcludeFromAnalytics,
                  !.editedExcludeFromAnalytics = ~detail.editedExcludeFromAnalytics]
  /\ UNCHANGED <<queueVars, nonDetailVars, tx>>

\* 403-417: handleToggleExcludeFromAnalytics with the value the switch gives.
Toggle ==
  /\ detail.pc = "idle"
  /\ detail.loaded
  /\ ~detail.transaction.isAnalyticsProtected
  /\ detail.edits < MaxEdits
  /\ detail' = [detail EXCEPT !.pc = "t_write", !.edits = @ + 1,
                  !.newValue = ~detail.editedExcludeFromAnalytics,
                  !.editedExcludeFromAnalytics = ~detail.editedExcludeFromAnalytics]
  /\ UNCHANGED <<queueVars, nonDetailVars, tx>>

\* 419-455: the value is written to the queue item or to the document; on
\* an error the switch is set back.
ToggleWrite ==
  /\ detail.pc = "t_write"
  /\ \/ /\ tx' = Written(tx, detail.isQueuedTransaction,
                         [(IF detail.isQueuedTransaction THEN tx.q ELSE tx.r)
                            EXCEPT !.excludeFromAnalytics = detail.newValue])
        /\ detail' = [detail EXCEPT !.pc = "idle",
                        !.transaction.excludeFromAnalytics = detail.newValue]
     \/ /\ ~detail.isQueuedTransaction
        /\ detail.faults < MaxDetailFaults
        /\ tx' = tx
        /\ detail' = [detail EXCEPT !.pc = "idle", !.faults = @ + 1,
                        !.editedExcludeFromAnalytics = ~detail.newValue]
  /\ UNCHANGED <<queueVars, nonDetailVars>>

\* 497-500: the edit form is opened.
Edit ==
  /\ detail.pc = "idle"
  /\ detail.loaded
  /\ ~detail.isEditing
  /\ detail' = [detail EXCEPT !.isEditing = TRUE]
  /\ UNCHANGED <<queueVars, nonDetailVars, tx>>

\* 835-843: the edit is cancelled.
Cancel ==
  /\ detail.pc = "idle"
  /\ detail.isEditing
  /\ detail' = [detail EXCEPT !.isEditing = FALSE,
                  !.editedExcludeFromAnalytics = detail.transaction.excludeFromAnalytics]
  /\ UNCHANGED <<queueVars, nonDetailVars, tx>>

\* 231-236: handleSave.
Save ==
  /\ detail.pc = "idle"
  /\ detail.isEditing
  /\ detail.edits < MaxEdits
  /\ detail' = [detail EXCEPT !.pc = "s_write", !.edits = @ + 1]
  /\ UNCHANGED <<queueVars, nonDetailVars, tx>>

\* 238-284: the edited fields, the exclusion among them, are written to the
\* queue item or to the document.
SaveWrite ==
  /\ detail.pc = "s_write"
  /\ \/ /\ tx' = Written(tx, detail.isQueuedTransaction,
                         [(IF detail.isQueuedTransaction THEN tx.q ELSE tx.r)
                            EXCEPT !.excludeFromAnalytics = detail.editedExcludeFromAnalytics])
        /\ detail' = [detail EXCEPT !.pc = "idle", !.isEditing = FALSE,
                        !.transaction.excludeFromAnalytics = detail.editedExcludeFromAnalytics,
                        !.savedProtected = @ \/ detail.transaction.isAnalyticsProtected]
     \/ /\ ~detail.isQueuedTransaction
        /\ detail.faults < MaxDetailFaults
        /\ tx' = tx
        /\ detail' = [detail EXCEPT !.pc = "idle", !.faults = @ + 1]
  /\ UNCHANGED <<queueVars, nonDetailVars>>

(***************************************************************************)
(* queueTransactionsForSync (syncQueue.ts 56-105).                         *)
(***************************************************************************)
IdleEnqueue == [pc |-> "idle", snap |-> EmptyQueue, items |-> {}, accepted |-> {}]

\* 83-85: the new transactions are appended, pending, to the queue read.
Appended(q, items) ==
  [x \in Items |-> IF x \in items THEN [st |-> "pending", att |-> 0] ELSE q[x]]

\* 76: the queue is read.
EnqueueRead(items) ==
  /\ up
  /\ enq.pc = "idle"
  /\ items # {}
  /\ \A x \in items : queue[x].st = "absent" /\ remote[x] = 0 /\ x \notin enq.accepted
  /\ enq' = [enq EXCEPT !.pc = "e_write", !.snap = queue, !.items = items]
  /\ UNCHANGED <<queueVars, screenVars, cln, xfer, acct>>

\* 77-96: the queue read is written with the new transactions, which are
\* returned.
EnqueueWrite ==
  /\ enq.pc = "e_write"
  /\ queue' = Appended(enq.snap, enq.items)
  /\ enq' = [enq EXCEPT !.pc = "idle", !.snap = EmptyQueue, !.items = {},
                        !.accepted = @ \cup enq.items]
  /\ UNCHANGED <<isSyncing, delOp, remote, run, ret, del, deleteOperationLocked,
                 qda, clr, envConfigured, up, tries, late, failing, env,
                 screenVars, cln, xfer, acct>>

(***************************************************************************)
(* cleanupSyncQueue (syncQueue.ts 190-218).                                *)
(*   removed  the transactions without a remote document that the call     *)
(*            removed from the queue                                       *)
(*   calls    the calls made so far                                        *)
(***************************************************************************)
MaxCleanups == 2
CleanupUsers == {"u1", "u2"}
IdleCleanup == [pc |-> "idle", userId |-> NoUser, removed |-> {}, calls |-> 0]

\* 207: Query.equal("userId", userId): the documents of the user.
RemoteTotal(u) == Cardinality({x \in Items : UserOf(x) = u /\ remote[x] > 0})

\* 196-200: the queue is read; an empty queue ends the call.
CleanupRead(u) ==
  /\ up
  /\ cln.pc = "idle"
  /\ cln.calls < MaxCleanups
  /\ cln' = [cln EXCEPT !.pc = IF Present(queue) = {} THEN "idle" ELSE "c_list",
                        !.userId = IF Present(queue) = {} THEN NoUser ELSE u,
                        !.calls = @ + 1]
  /\ UNCHANGED <<queueVars, screenVars, enq, xfer, acct>>

\* 203-211: the user's documents are counted; with none the queue is removed.
CleanupList ==
  /\ cln.pc = "c_list"
  /\ cln' = [cln EXCEPT !.pc = IF RemoteTotal(cln.userId) = 0 THEN "c_remove" ELSE "idle",
                        !.userId = IF RemoteTotal(cln.userId) = 0 THEN @ ELSE NoUser]
  /\ UNCHANGED <<queueVars, screenVars, enq, xfer, acct>>

\* 203-207, 215-217: the listing throws; the error is logged.
CleanupListFailed ==
  /\ cln.pc = "c_list"
  /\ env.faults > 0
  /\ env' = [env EXCEPT !.faults = @ - 1]
  /\ cln' = [cln EXCEPT !.pc = "idle", !.userId = NoUser]
  /\ UNCHANGED <<queue, isSyncing, delOp, remote, run, ret, del, deleteOperationLocked,
                 qda, clr, envConfigured, up, tries, late, failing,
                 screenVars, enq, xfer, acct>>

\* 211: AsyncStorage.removeItem(SYNC_QUEUE_KEY).
CleanupRemove ==
  /\ cln.pc = "c_remove"
  /\ queue' = EmptyQueue
  /\ cln' = [cln EXCEPT !.pc = "c_reset",
                        !.removed = @ \cup {x \in Present(queue) : remote[x] = 0}]
  /\ UNCHANGED <<isSyncing, delOp, remote, run, ret, del, deleteOperationLocked,
                 qda, clr, envConfigured, up, tries, late, failing, env,
                 screenVars, enq, xfer, acct>>

\* 212 (866-873): the sync status is reset.
CleanupReset ==
  /\ cln.pc = "c_reset"
  /\ isSyncing' = FALSE
  /\ cln' = [cln EXCEPT !.pc = "idle", !.userId = NoUser]
  /\ UNCHANGED <<queue, delOp, remote, run, ret, del, deleteOperationLocked,
                 qda, clr, envConfigured, up, tries, late, failing, env,
                 screenVars, enq, xfer, acct>>

(***************************************************************************)
(* Two transactions of a matched transfer and the transaction-detail       *)
(* screen opened on one of them (transaction-detail.tsx 90-196, 286-311).  *)
(*   docs    the remote documents                                          *)
(*   id      the transaction the screen was opened on                      *)
(*   shown   the transaction the screen shows once loaded                  *)
(***************************************************************************)
MaxTransferLoads == 3
MaxTransferFaults == 1
TransferIds == {"A", "B"}
NoDoc == [exists |-> FALSE, matchedTransferId |-> "none",
          isAnalyticsProtected |-> FALSE, excludeFromAnalytics |-> FALSE]
NoTransfers ==
  [docs |-> [t \in TransferIds |-> NoDoc], pc |-> "idle", id |-> "none",
   shown |-> "none", created |-> FALSE, loads |-> 0, faults |-> 0]

Partner(t) == IF t = "A" THEN "B" ELSE "A"

\* appwrite.ts 645-690: the two transactions are created, as the two sides of
\* a transfer that point at each other, or as a transaction flagged as a
\* transfer without a matched transaction next to a plain one.
TransferCreate(linked, excluded) ==
  /\ up
  /\ ~xfer.created
  /\ xfer' = [xfer EXCEPT
       !.created = TRUE,
       !.docs = [t \in TransferIds |->
          IF linked
          THEN [exists |-> TRUE, matchedTransferId |-> Partner(t),
                isAnalyticsProtected |-> TRUE, excludeFromAnalytics |-> TRUE]
          ELSE [exists |-> TRUE, matchedTransferId |-> "none",
                isAnalyticsProtected |-> (t = "A"),
                excludeFromAnalytics |-> excluded]]]
  /\ UNCHANGED <<queueVars, screenVars, enq, cln, acct>>

\* 90-100: the screen is opened on a transaction.
TransferLoad(t) ==
  /\ xfer.created
  /\ xfer.pc = "idle"
  /\ xfer.shown = "none"
  /\ xfer.loads < MaxTransferLoads
  /\ xfer' = [xfer EXCEPT !.pc = "x_get", !.id = t, !.loads = @ + 1]
  /\ UNCHANGED <<queueVars, screenVars, enq, cln, acct>>

\* 157: the flags are removed from a transaction flagged as a transfer that
\* has no matched transaction id.
NeedsClear(doc) == doc.isAnalyticsProtected /\ doc.matchedTransferId = "none"

\* 104-141, 155-157, 190-196: getDocument answers; the transaction is shown
\* unless its flags are to be removed first.
TransferGet ==
  /\ xfer.pc = "x_get"
  /\ xfer.docs[xfer.id].exists
  /\ xfer' = IF NeedsClear(xfer.docs[xfer.id])
             THEN [xfer EXCEPT !.pc = "x_clear"]
             ELSE [xfer EXCEPT !.pc = "idle", !.shown = xfer.id]
  /\ UNCHANGED <<queueVars, screenVars, enq, cln, acct>>

\* 135-152: the document is not in the database, nor in the queue.
TransferNotFound ==
  /\ xfer.pc = "x_get"
  /\ ~xfer.docs[xfer.id].exists
  /\ xfer' = [xfer EXCEPT !.pc = "idle", !.id = "none"]
  /\ UNCHANGED <<queueVars, screenVars, enq, cln, acct>>

\* 158-184: updateDocument removes the two flags.
TransferClear ==
  /\ xfer.pc = "x_clear"
  /\ xfer' = [xfer EXCEPT !.pc = "idle", !.shown = xfer.id,
                !.docs[xfer.id].isAnalyticsProtected = FALSE,
                !.docs[xfer.id].excludeFromAnalytics = FALSE]
  /\ UNCHANGED <<queueVars, screenVars, enq, cln, acct>>

\* 185-187: the update fails; the transaction is shown as it was read.
TransferClearFailed ==
  /\ xfer.pc = "x_clear"
  /\ xfer.faults < MaxTransferFaults
  /\ xfer' = [xfer EXCEPT !.pc = "idle", !.shown = xfer.id, !.faults = @ + 1]
  /\ UNCHANGED <<queueVars, screenVars, enq, cln, acct>>

\* 286-306: handleDelete deletes the document shown and the screen is left.
TransferDelete ==
  /\ xfer.pc = "idle"
  /\ xfer.shown # "none"
  /\ xfer' = [xfer EXCEPT !.docs[xfer.shown].exists = FALSE,
                !.shown = "none", !.id = "none"]
  /\ UNCHANGED <<queueVars, screenVars, enq, cln, acct>>

\* 307-310: the delete fails; the screen stays.
TransferDeleteFailed ==
  /\ xfer.pc = "idle"
  /\ xfer.shown # "none"
  /\ xfer.faults < MaxTransferFaults
  /\ xfer' = [xfer EXCEPT !.faults = @ + 1]
  /\ UNCHANGED <<queueVars, screenVars, enq, cln, acct>>

\* The screen is left.
TransferBack ==
  /\ xfer.pc = "idle"
  /\ xfer.shown # "none"
  /\ xfer' = [xfer EXCEPT !.shown = "none", !.id = "none"]
  /\ UNCHANGED <<queueVars, screenVars, enq, cln, acct>>

(***************************************************************************)
(* deleteAccount (useSessionStore.ts 99-130) and deleteUserAccount         *)
(* (appwrite.ts 980-1050).                                                 *)
(*   disabled  account.updateStatus() has disabled the auth account        *)
(*   result    what deleteAccount returned: "success", "failed" or "none"  *)
(***************************************************************************)
IdleAccount == [pc |-> "idle", userId |-> NoUser, disabled |-> FALSE, result |-> "none"]

\* useSessionStore.ts 99-105: the call; without a user it fails at once.
DeleteAccountCall(u) ==
  /\ up
  /\ acct.pc = "idle"
  /\ acct.result = "none"
  /\ acct' = IF u = NoUser
             THEN [acct EXCEPT !.result = "failed"]
             ELSE [acct EXCEPT !.pc = "a_queue", !.userId = u]
  /\ UNCHANGED <<queueVars, screenVars, enq, cln, xfer>>

\* useSessionStore.ts 112: queueDeleteAll(userId) is called.
AccountQueueDeleteAll ==
  /\ acct.pc = "a_queue"
  /\ env.deleteAlls = MaxDeleteAlls
  /\ QueueDeleteAll(acct.userId)

\* part_002 891 and useSessionStore.ts 122-128: storing the operation rejects,
\* queueDeleteAll throws and deleteAccount returns the failure.
AccountQueueFailed ==
  /\ acct.pc = "a_queue"
  /\ env.deleteAlls = MaxDeleteAlls
  /\ qda.pc = "idle"
  /\ env.faults > 0
  /\ env' = [env EXCEPT !.faults = @ - 1]
  /\ acct' = [acct EXCEPT !.pc = "idle", !.result = "failed"]
  /\ UNCHANGED <<queue, isSyncing, delOp, remote, run, ret, del, deleteOperationLocked,
                 qda, clr, envConfigured, up, tries, late, failing,
                 screenVars, enq, cln, xfer>>

\* useSessionStore.ts 112-115: queueDeleteAll has returned and
\* deleteUserAccount is called.
AccountQueueReturned ==
  /\ acct.pc = "a_queue"
  /\ env.deleteAlls < MaxDeleteAlls
  /\ qda.pc = "idle"
  /\ acct' = [acct EXCEPT !.pc = "a_account"]
  /\ UNCHANGED <<queueVars, screenVars, enq, cln, xfer>>

\* appwrite.ts 981 and useSessionStore.ts 122-128: no database is configured.
AccountNotConfigured ==
  /\ acct.pc = "a_account"
  /\ ~envConfigured
  /\ acct' = [acct EXCEPT !.pc = "idle", !.result = "failed"]
  /\ UNCHANGED <<queueVars, screenVars, enq, cln, xfer>>

\* An account that is disabled before the deletion is queued.
AccountDisableFirst ==
  /\ acct.pc \in {"a_queue", "a_account"}
  /\ envConfigured
  /\ acct' = [acct EXCEPT !.pc = "a_data", !.disabled = TRUE]
  /\ UNCHANGED <<queueVars, screenVars, enq, cln, xfer>>
\* appwrite.ts 989-991: account.updateStatus() disables the auth account.
AccountDisable ==
  /\ acct.pc = "a_account"
  /\ envConfigured
  /\ acct' = [acct EXCEPT !.pc = "a_data", !.disabled = TRUE]
  /\ UNCHANGED <<queueVars, screenVars, enq, cln, xfer>>

\* appwrite.ts 992-996, 1043-1049: the account cannot be disabled.
AccountDisableFailed ==
  /\ acct.pc = "a_account"
  /\ envConfigured
  /\ env.faults > 0
  /\ env' = [env EXCEPT !.faults = @ - 1]
  /\ acct' = [acct EXCEPT !.pc = "idle", !.result = "failed"]
  /\ UNCHANGED <<queue, isSyncing, delOp, remote, run, ret, del, deleteOperationLocked,
                 qda, clr, envConfigured, up, tries, late, failing,
                 screenVars, enq, cln, xfer>>

\* appwrite.ts 998-1042: budgets, balances and profile are deleted, errors
\* ignored, and success is returned.
AccountData ==
  /\ acct.pc = "a_data"
  /\ acct' = [acct EXCEPT !.pc = "idle", !.result = "success"]
  /\ UNCHANGED <<queueVars, screenVars, enq, cln, xfer>>


\* Nothing is being queued, cleaned up or deleted.
LateIdle ==
  /\ enq = IdleEnqueue
  /\ cln = IdleCleanup
  /\ xfer = NoTransfers
  /\ acct = IdleAccount

\* No vote is stored and none is being cast.
LearnIdle ==
  /\ voteDocs = <<>>
  /\ learn = [l \in Learners |-> IdleLearn]
  /\ match = IdleMatch
  /\ cat = IdleCat

\* No import is under way.
NoImport ==
  /\ parseResult = <<>>
  /\ balances = NoSaved
  /\ imp = "paste"
  /\ BalancesIdle
  /\ LearnIdle
  /\ DetailIdle
  /\ LateIdle

\* The app is started with NumItems transactions queued, none uploaded yet.
InitWith(e) ==
  /\ queue = [x \in Items |-> [st |-> "pending", att |-> 0]]
  /\ isSyncing = FALSE
  /\ delOp = NoDelete
  /\ remote = [x \in Items |-> 0]
  /\ run = [r \in Runs |-> IdleRun]
  /\ ret = [r \in Runs |-> NoRet]
  /\ del = [d \in DelRuns |-> IdleDelete]
  /\ late = {}
  /\ failing = {}
  /\ deleteOperationLocked = FALSE
  /\ qda = NoQda
  /\ clr = NoClear
  /\ envConfigured \in BOOLEAN
  /\ up = TRUE
  /\ tries = [x \in Items |-> [sent |-> 0, refused |-> 0]]
  /\ env = e
  /\ NoImport

Init == InitWith([runs |-> MaxRuns, faults |-> MaxFaults, crashes |-> MaxCrashes,
                  deleteAlls |-> MaxDeleteAlls, resets |-> MaxResets])

\* Sync runs of one caller, the delete queue and the deferred queue purge.
Next ==
  \/ SyncStep("r1")
  \/ ClearStep
  \/ QdaStep
  \/ DeleteStep("d1")

Spec == Init /\ [][Next]_vars

\* Sync runs of one caller, process kills and restarts, resetSyncStatus.
NextRestart ==
  \/ SyncCore("r1")
  \/ ClearStep
  \/ ResetSyncStatus
  \/ Crash
  \/ Restart

SpecRestart == Init /\ [][NextRestart]_vars

\* Sync runs of two callers.
NextOverlap ==
  \/ \E r \in Runs : SyncCore(r)
  \/ ClearStep

SpecOverlap == Init /\ [][NextOverlap]_vars

\* Sync runs of one caller, one after the other, with repeated remote errors.
InitRetry == InitWith([runs |-> RetryRuns, faults |-> RetryFaults, crashes |-> 0,
                       deleteAlls |-> 0, resets |-> 0])

NextRetry ==
  \/ SyncCore("r1")
  \/ ClearStep

SpecRetry == InitRetry /\ [][NextRetry]_vars

\* The delete queue on its own: every transaction of the user is uploaded and
\* still queued as completed; one document may be undeletable.
InitDelete ==
  /\ queue = [x \in Items |-> [st |-> "completed", att |-> 1]]
  /\ isSyncing = FALSE
  /\ delOp = NoDelete
  /\ remote = [x \in Items |-> 1]
  /\ run = [r \in Runs |-> IdleRun]
  /\ ret = [r \in Runs |-> NoRet]
  /\ del = [d \in DelRuns |-> IdleDelete]
  /\ deleteOperationLocked = FALSE
  /\ qda = NoQda
  /\ clr = NoClear
  /\ envConfigured = TRUE
  /\ up = TRUE
  /\ tries = [x \in Items |-> [sent |-> 1, refused |-> 0]]
  /\ late = {}
  /\ failing \in {{}, {1}}
  /\ env = [runs |-> 0, faults |-> DelFaults, crashes |-> MaxCrashes,
            deleteAlls |-> DelDeleteAlls, resets |-> 0]
  /\ NoImport

NextDelete ==
  \/ \E d \in DelRuns : DeleteStep(d) \/ DeleteFaultStep(d)
  \/ QdaStep
  \/ LateDelete
  \/ Crash
  \/ Restart

SpecDelete == InitDelete /\ [][NextDelete]_vars

\* A delete run that was called keeps being scheduled: every await of
\* startDeletingTransactions is a timer or a request that resolves or rejects.
DeleteRunStep(d) == DeleteStep(d) \/ DeleteFaultStep(d)
SpecDeleteFair ==
  InitDelete /\ [][NextDelete]_vars /\ \A d \in DelRuns : WF_vars(DeleteRunStep(d))

\* A CSV is pasted into the import screen and Continue is pressed; the sync
\* and delete queues are idle.
InitImport ==
  /\ queue = EmptyQueue
  /\ isSyncing = FALSE
  /\ delOp = NoDelete
  /\ remote = [x \in Items |-> 0]
  /\ run = [r \in Runs |-> IdleRun]
  /\ ret = [r \in Runs |-> NoRet]
  /\ del = [d \in DelRuns |-> IdleDelete]
  /\ deleteOperationLocked = FALSE
  /\ qda = NoQda
  /\ clr = NoClear
  /\ envConfigured = TRUE
  /\ up = TRUE
  /\ tries = [x \in Items |-> [sent |-> 0, refused |-> 0]]
  /\ late = {}
  /\ failing = {}
  /\ env = [runs |-> 0, faults |-> 0, crashes |-> 0, deleteAlls |-> 0,
            resets |-> 0]
  /\ parseResult \in Batches
  /\ balances = NoSaved
  /\ imp = "paste"
  /\ BalancesIdle
  /\ LearnIdle
  /\ DetailIdle
  /\ LateIdle

NextImport ==
  \/ HandleContinue
  \/ HandleContinueEmpty

SpecImport == InitImport /\ [][NextImport]_vars

\* Sync runs of the imported transactions and the undo of the import.
\* The import has saved the snapshot of the one account it touched and
\* upserted its balance; its transactions are queued, none uploaded yet.
InitUndo ==
  /\ queue = [x \in Items |-> [st |-> "pending", att |-> 0]]
  /\ isSyncing = FALSE
  /\ delOp = NoDelete
  /\ remote = [x \in Items |-> 0]
  /\ run = [r \in Runs |-> IdleRun]
  /\ ret = [r \in Runs |-> NoRet]
  /\ del = [d \in DelRuns |-> IdleDelete]
  /\ deleteOperationLocked = FALSE
  /\ qda = NoQda
  /\ clr = NoClear
  /\ envConfigured \in BOOLEAN
  /\ up = TRUE
  /\ tries = [x \in Items |-> [sent |-> 0, refused |-> 0]]
  /\ late = {}
  /\ failing = {}
  /\ env = [runs |-> MaxRuns, faults |-> MaxFaults, crashes |-> 0,
            deleteAlls |-> 0, resets |-> 0]
  /\ parseResult = <<>>
  /\ balances = NoSaved
  /\ imp = "paste"
  /\ balanceDocs = <<[accountKey |-> "revolut-current-eur", balance |-> 10,
                      previousBalance |-> 5, previousBalanceTimestamp |-> 1,
                      importBatchId |-> "b1"]>>
  /\ upsert = [p \in Upserters |-> IdleUpsert]
  /\ bimp = IdleBalanceImport
  /\ undo = IdleUndo
  /\ LearnIdle
  /\ DetailIdle
  /\ LateIdle

NextUndo ==
  \/ SyncCore("r1")
  \/ ClearStep
  \/ UndoStep

SpecUndo == InitUndo /\ [][NextUndo]_vars

\* One account has a balance document; a batch is imported, balances are
\* upserted by other callers, and imports are undone.
InitBalance ==
  /\ queue = EmptyQueue
  /\ isSyncing = FALSE
  /\ delOp = NoDelete
  /\ remote = [x \in Items |-> 0]
  /\ run = [r \in Runs |-> IdleRun]
  /\ ret = [r \in Runs |-> NoRet]
  /\ del = [d \in DelRuns |-> IdleDelete]
  /\ deleteOperationLocked = FALSE
  /\ qda = NoQda
  /\ clr = NoClear
  /\ envConfigured = TRUE
  /\ up = TRUE
  /\ tries = [x \in Items |-> [sent |-> 0, refused |-> 0]]
  /\ late = {}
  /\ failing = {}
  /\ env = [runs |-> 0, faults |-> 0, crashes |-> 0, deleteAlls |-> 0,
            resets |-> 0]
  /\ parseResult = <<>>
  /\ balances = NoSaved
  /\ imp = "paste"
  /\ balanceDocs = <<[accountKey |-> "revolut-current-eur", balance |-> 5,
                      previousBalance |-> NoPrevious,
                      previousBalanceTimestamp |-> 0, importBatchId |-> NoBatch]>>
  /\ upsert = [p \in Upserters |-> IdleUpsert]
  /\ bimp = IdleBalanceImport
  /\ undo = IdleUndo
  /\ LearnIdle
  /\ DetailIdle
  /\ LateIdle

NextBalance ==
  \/ \E p \in Upserters, k \in AccountKeys, b \in NewBalances : UpsertList(p, k, b)
  \/ \E p \in Upserters : UpsertWrite(p)
  \/ \E A \in SUBSET AccountKeys, b \in NewBalances : ImportBalances("b1", A, b)
  \/ SnapshotList
  \/ SnapshotUpdate
  \/ ImportUpsertList
  \/ ImportUpsertWrite
  \/ \E b \in ImportBatchIds : RestoreCall(b)
  \/ RestoreList
  \/ RestoreUpdate
  \/ RestoreReturn

SpecBalance == InitBalance /\ [][NextBalance]_vars

\* The sync and delete queues and the screens are idle.
InitIdle ==
  /\ queue = EmptyQueue
  /\ isSyncing = FALSE
  /\ delOp = NoDelete
  /\ remote = [x \in Items |-> 0]
  /\ run = [r \in Runs |-> IdleRun]
  /\ ret = [r \in Runs |-> NoRet]
  /\ del = [d \in DelRuns |-> IdleDelete]
  /\ deleteOperationLocked = FALSE
  /\ qda = NoQda
  /\ clr = NoClear
  /\ envConfigured = TRUE
  /\ up = TRUE
  /\ tries = [x \in Items |-> [sent |-> 0, refused |-> 0]]
  /\ late = {}
  /\ failing = {}
  /\ env = [runs |-> 0, faults |-> 0, crashes |-> 0, deleteAlls |-> 0,
            resets |-> 0]
  /\ NoImport

\* One caller casts its votes one after the other.
NextLearnSeq == LearnStep("l1")
SpecLearnSeq == InitIdle /\ [][NextLearnSeq]_vars

\* Two callers cast votes at the same time.
NextLearn == \E l \in Learners : LearnStep(l)
SpecLearn == InitIdle /\ [][NextLearn]_vars

\* The queues idle, with the given votes, match and categorization.
InitScreens(docs, m, c, t) ==
  /\ queue = EmptyQueue
  /\ isSyncing = FALSE
  /\ delOp = NoDelete
  /\ remote = [x \in Items |-> 0]
  /\ run = [r \in Runs |-> IdleRun]
  /\ ret = [r \in Runs |-> NoRet]
  /\ del = [d \in DelRuns |-> IdleDelete]
  /\ deleteOperationLocked = FALSE
  /\ qda = NoQda
  /\ clr = NoClear
  /\ envConfigured = TRUE
  /\ up = TRUE
  /\ tries = [x \in Items |-> [sent |-> 0, refused |-> 0]]
  /\ late = {}
  /\ failing = {}
  /\ env = [runs |-> 0, faults |-> 0, crashes |-> 0, deleteAlls |-> 0,
            resets |-> 0]
  /\ parseResult = <<>>
  /\ balances = NoSaved
  /\ imp = "paste"
  /\ BalancesIdle
  /\ voteDocs = docs
  /\ learn = [l \in Learners |-> IdleLearn]
  /\ match = m
  /\ cat = c
  /\ tx = t
  /\ detail = IdleDetail
  /\ LateIdle

\* findMatchingCategory over every stored key and title key.
InitMatch ==
  \E storedKey \in MerchantKeys, titleKey \in MerchantKeys :
    InitScreens(<<>>, [IdleMatch EXCEPT !.storedKey = storedKey, !.titleKey = titleKey],
                IdleCat, NoTx)
NextMatch == FindMatching
SpecMatch == InitMatch /\ [][NextMatch]_vars

\* One categorization, of a transaction or of a batch, against a vote table.
InitCategorize ==
  \E docs \in VoteTables, categories \in CategoryLists :
    InitScreens(docs, IdleMatch, [IdleCat EXCEPT !.categories = categories], NoTx)
NextCategorize ==
  \/ \E title \in Titles, groups \in Texts, isExpense \in BOOLEAN :
       CategorizeCall(title, groups, isExpense)
  \/ CategorizeMappings
  \/ CategorizeSlug
  \/ \E rows \in BatchesUpTo(MaxBatch) : BatchCall(rows)
  \/ BatchFetch
SpecCategorize == InitCategorize /\ [][NextCategorize]_vars

\* The screen is opened on a transaction that is in the sync queue or in the
\* remote store.
InitDetail ==
  \E flags \in Flags, queued \in BOOLEAN :
    InitScreens(<<>>, IdleMatch, IdleCat,
                [queued |-> queued, inRemote |-> ~queued,
                 q |-> IF queued THEN flags ELSE NoFlags,
                 r |-> IF queued THEN NoFlags ELSE flags])
NextDetail ==
  \/ DetailSync
  \/ LoadStart \/ LoadGet \/ LoadQueue \/ LoadClear
  \/ ToggleRefused \/ Toggle \/ ToggleWrite
  \/ Edit \/ Cancel \/ Save \/ SaveWrite
SpecDetail == InitDetail /\ [][NextDetail]_vars

\* The first n transactions are queued, pending, and nothing is running.
InitQueued(n, e) ==
  /\ queue = [x \in Items |-> IF x <= n THEN [st |-> "pending", att |-> 0] ELSE Absent]
  /\ isSyncing = FALSE
  /\ delOp = NoDelete
  /\ remote = [x \in Items |-> 0]
  /\ run = [r \in Runs |-> IdleRun]
  /\ ret = [r \in Runs |-> NoRet]
  /\ del = [d \in DelRuns |-> IdleDelete]
  /\ deleteOperationLocked = FALSE
  /\ qda = NoQda
  /\ clr = NoClear
  /\ envConfigured \in BOOLEAN
  /\ up = TRUE
  /\ tries = [x \in Items |-> [sent |-> 0, refused |-> 0]]
  /\ late = {}
  /\ failing = {}
  /\ env = e
  /\ NoImport
\* All transactions but the last are queued and the last is handed to
\* queueTransactionsForSync while a sync run and the deferred purge go on.
InitEnqueue ==
  InitQueued(NumItems - 1, [runs |-> MaxRuns, faults |-> MaxFaults, crashes |-> 0,
                            deleteAlls |-> 0, resets |-> 0])
NextEnqueue ==
  \/ SyncCore("r1")
  \/ ClearStep
  \/ \E items \in SUBSET Items : EnqueueRead(items)
  \/ EnqueueWrite
SpecEnqueue == InitEnqueue /\ [][NextEnqueue]_vars

\* cleanupSyncQueue is called, for the owner of the queued transactions or
\* for another user, while a sync run uploads them.
NextCleanup ==
  \/ SyncCore("r1")
  \/ \E u \in CleanupUsers : CleanupRead(u)
  \/ CleanupList \/ CleanupListFailed \/ CleanupRemove \/ CleanupReset
InitCleanup ==
  InitQueued(NumItems, [runs |-> MaxRuns, faults |-> MaxFaults, crashes |-> 0,
                        deleteAlls |-> 0, resets |-> 0])
SpecCleanup == InitCleanup /\ [][NextCleanup]_vars

\* Sync runs are started while a delete-all is queued and a delete run
\* succeeds or fails.
InitBlock == InitWith([runs |-> MaxRuns, faults |-> MaxFaults, crashes |-> 0,
                       deleteAlls |-> MaxDeleteAlls, resets |-> 0])
NextBlock ==
  \/ SyncStep("r1")
  \/ QdaStep
  \/ DeleteStep("d1")
  \/ DeleteCountFailed("d1") \/ DeleteListFailed("d1") \/ DeleteTimedOut("d1")
  \/ DeleteFailed("d1") \/ DeleteFailedReturn("d1")
SpecBlock == InitBlock /\ [][NextBlock]_vars

\* deleteAccount is called, with or without a user, while a sync run may be
\* under way.
InitAccount == InitWith([runs |-> MaxRuns, faults |-> MaxFaults, crashes |-> 0,
                         deleteAlls |-> MaxDeleteAlls, resets |-> 0])
NextAccount ==
  \/ SyncStep("r1")
  \/ \E u \in Users \cup {NoUser} : DeleteAccountCall(u)
  \/ AccountQueueDeleteAll \/ AccountQueueFailed \/ AccountQueueReturned
  \/ QdaRemoveQueue \/ QdaResetStatus
  \/ AccountNotConfigured \/ AccountDisable \/ AccountDisableFailed
  \/ AccountData
SpecAccount == InitAccount /\ [][NextAccount]_vars

\* The two sides of a transfer are created, opened, and deleted one by one.
NextTransfer ==
  \/ \E linked \in BOOLEAN, excluded \in BOOLEAN : TransferCreate(linked, excluded)
  \/ \E t \in TransferIds : TransferLoad(t)
  \/ TransferGet \/ TransferNotFound \/ TransferClear \/ TransferClearFailed
  \/ TransferDelete \/ TransferDeleteFailed \/ TransferBack
SpecTransfer == InitIdle /\ [][NextTransfer]_vars

(***************************************************************************)
(* The background tasks (backgroundTasks.ts 18-125).  After the process    *)
(* was killed the scheduler starts it again to run a task; the app's       *)
(* start-up, with initializeSyncStatus and initializeDeleteStatus, is not  *)
(* part of a task.                                                         *)
(***************************************************************************)
\* The scheduler starts the killed process to run its tasks.
BgLaunch ==
  /\ ~up
  /\ up' = TRUE
  /\ UNCHANGED <<queue, isSyncing, delOp, remote, run, ret, del,
                 deleteOperationLocked, qda, clr, envConfigured, late, failing,
                 tries, env, importVars>>

\* The process has been killed at least once.
Killed == env.crashes < MaxCrashes

\* backgroundTasks.ts 81-99: the delete task reads the operation and calls
\* startDeletingTransactions unless there is none or it is completed.
BgDeleteTask(d) ==
  /\ Killed
  /\ delOp.status # "none"
  /\ delOp.status # "completed"
  /\ StartDelete(d)

\* backgroundTasks.ts 18-35: the sync task reads the queue and calls
\* startSyncingTransactions when a transaction is pending or failed.
BgSyncTask(r) ==
  /\ Killed
  /\ \E x \in Items : queue[x].st \in {"pending", "failed"}
  /\ StartSync(r)

\* The app, in the foreground, calls startDeletingTransactions.
UserStartDelete(d) == ~Killed /\ StartDelete(d)
\* The user asks for a delete-all.
UserQueueDeleteAll == ~Killed /\ \E u \in Users : QueueDeleteAll(u)

\* The steps of a delete run when the remote store accepts every delete.
DeleteProceeds(d) ==
  \/ DeleteRead(d) \/ DeleteCount(d) \/ DeleteBegin(d)
  \/ DeleteList(d) \/ DeleteDocument(d) \/ DeleteProgress(d)
  \/ DeleteCompleted(d) \/ DeleteRemoveOp(d) \/ DeleteRemoveQueue(d)
  \/ DeleteFinish(d)

\* A delete-all is queued and run; the process is killed and from then on
\* only the background delete task runs.
InitBgDelete ==
  /\ queue = [x \in Items |-> [st |-> "completed", att |-> 1]]
  /\ isSyncing = FALSE
  /\ delOp = NoDelete
  /\ remote = [x \in Items |-> 1]
  /\ run = [r \in Runs |-> IdleRun]
  /\ ret = [r \in Runs |-> NoRet]
  /\ del = [d \in DelRuns |-> IdleDelete]
  /\ deleteOperationLocked = FALSE
  /\ qda = NoQda
  /\ clr = NoClear
  /\ envConfigured = TRUE
  /\ up = TRUE
  /\ tries = [x \in Items |-> [sent |-> 1, refused |-> 0]]
  /\ late = {}
  /\ failing = {}
  /\ env = [runs |-> 0, faults |-> 0, crashes |-> MaxCrashes,
            deleteAlls |-> MaxDeleteAlls, resets |-> 0]
  /\ NoImport
NextBgDelete ==
  \/ UserQueueDeleteAll \/ QdaRemoveQueue \/ QdaResetStatus
  \/ UserStartDelete("d1")
  \/ DeleteProceeds("d1")
  \/ LateDelete
  \/ Crash
  \/ BgLaunch
  \/ BgDeleteTask("d1")
\* The scheduler keeps starting the process and the task, and every await of
\* a delete run resolves.
SpecBgDelete ==
  /\ InitBgDelete /\ [][NextBgDelete]_vars
  /\ WF_vars(DeleteProceeds("d1"))
  /\ WF_vars(LateDelete)
  /\ WF_vars(BgLaunch)
  /\ SF_vars(BgDeleteTask("d1"))

\* The app, in the foreground, calls startSyncingTransactions.
UserStartSync(r) == ~Killed /\ StartSync(r)

\* The steps of a sync run when the remote store accepts every create.
SyncProceeds(r) ==
  \/ SyncReadQueue(r) \/ SyncEmpty(r)
  \/ SyncSetStatus(r) \/ SyncMark(r) \/ SyncGroup(r)
  \/ BatchSuccessRead(r) \/ BatchSuccessWrite(r) \/ NextBatch(r)
  \/ FinalRead(r) \/ FinalWrite(r)
  \/ EndStatus(r) \/ EndReturn(r)
  \/ \E x \in Items : CreateAnswered(r, x)

\* Transactions are queued and a sync run uploads them; the process is killed
\* and from then on only the background sync task runs.  No delete operation
\* is stored.
InitBgSync ==
  /\ InitQueued(NumItems, [runs |-> RetryRuns, faults |-> 0, crashes |-> MaxCrashes,
                           deleteAlls |-> 0, resets |-> 0])
  /\ envConfigured
NextBgSync ==
  \/ UserStartSync("r1")
  \/ SyncProceeds("r1")
  \/ ClearStep
  \/ Crash
  \/ BgLaunch
  \/ BgSyncTask("r1")
\* The scheduler keeps starting the process and the task, and every await of
\* a sync run resolves.
SpecBgSync ==
  /\ InitBgSync /\ [][NextBgSync]_vars
  /\ WF_vars(SyncProceeds("r1"))
  /\ WF_vars(BgLaunch)
  /\ SF_vars(BgSyncTask("r1"))

(***************************************************************************)
(* Properties.                                                             *)
(***************************************************************************)
\* The creates a step of run r issues.
Issued(r) == run'[r].sent \ run[r].sent

\* C1: sync and delete never run concurrently: no sync run issues a remote
\* create for a user's transaction while the delete operation of that user is
\* in-progress (the delete run is inside its deletion loop).
C1_NoCreateDuringDelete ==
  [][\A r \in Runs : \A x \in Issued(r) :
       ~(delOp.status = "in-progress" /\ delOp.userId = UserOf(x))]_vars

\* C2: when startSyncingTransactions is called while a pending or in-progress
\* delete operation is stored, the call takes the blocked path, which returns
\* {succeeded: 0, failed: 0}, issues no create and leaves the queue as it is.
C2_BlockedByDelete ==
  [][\A r \in Runs :
       /\ (StartSync(r) /\ DeleteActive(delOp)) => run'[r].pc = "s_blocked"
       /\ (run[r].pc = "s_blocked" /\ run'[r] # run[r]) =>
            /\ ret'[r].succeeded = 0 /\ ret'[r].failed = 0
            /\ run'[r].pc = "idle"
            /\ run[r].sent = {}
            /\ queue' = queue
            /\ remote' = remote]_vars

\* A call made while a delete operation was active has returned 0/0 with
\* items still queued.
C2_BlockedReturn ==
  /\ ret["r1"].how = "blocked"
  /\ ret["r1"].succeeded = 0
  /\ DeleteActive(delOp)
  /\ Present(queue) # {}

\* Run r returns in this step.
Returns(r) == run[r].pc # "idle" /\ run'[r].pc = "idle" /\ up'

\* C3: whenever startSyncingTransactions returns, no item of the persisted
\* queue is left with syncStatus syncing.
C3_NoSyncingAtReturn ==
  [][\A r \in Runs : Returns(r) => \A x \in Items : queue'[x].st # "syncing"]_vars

\* C4: a run cancelled because a delete operation was observed returns as
\* succeeded the number k of items it has uploaded.
C4_CancelReturnsUploaded ==
  \A r \in Runs : ret[r].how = "cancelled" => ret[r].succeeded = ret[r].ups

\* C5: upload is idempotent per queued id: the remote store never holds two
\* documents made from one queued transaction, and a create answered with a
\* duplicate-id error is counted as succeeded and the item marked completed.
C5_Idempotent ==
  /\ [](\A x \in Items : remote[x] <= 1)
  /\ [](\A r \in Runs : run[r].dups \subseteq run[r].oks)
  /\ [](\A r \in Runs : ret[r].how = "done" => ret[r].succeeded = ret[r].ups)
  /\ [][\A r \in Runs : FinalWrite(r) =>
          \A x \in run[r].dups \cap Group(run[r]) :
             run[r].snap[x].st # "absent" => queue'[x].st = "completed"]_vars

\* A re-run has had a create answered as a duplicate of a document made by an
\* earlier attempt, and has marked the item completed.
C5_DuplicateCompleted ==
  /\ run["r1"].pc = "s_notify"
  /\ \E x \in run["r1"].dups :
       tries[x].sent >= 2 /\ remote[x] = 1 /\ queue[x].st = "completed"

\* C6: progress is durable per batch: when the creates of the next batch are
\* issued, every item created in the earlier batches of the upload is persisted
\* as completed (or was purged from the queue as completed), and a restart
\* leaves completed items completed.
C6_DurablePerBatch ==
  [][/\ \A r \in Runs : (NextBatch(r) /\ Issued(r) # {}) =>
           \A x \in run[r].succ : queue[x].st \in {"completed", "absent"}
     /\ Restart => \A x \in Items : queue[x].st = "completed" => queue'[x].st = "completed"]_vars

\* C7: only one sync run executes at a time: an invocation made while the
\* stored isSyncing flag is true uploads nothing, and no queued item is sent to
\* the remote store by two runs that overlap.
C7_NoOverlappingUpload ==
  /\ \A r \in Runs : run[r].busy => run[r].sent = {}
  /\ run["r1"].sent \cap run["r2"].sent = {}

\* C8: after initializeSyncStatus has run at startup no queued transaction is
\* syncing and the stored isSyncing flag is false.
C8_InitializedClean ==
  [][Restart => /\ \A x \in Items : queue'[x].st # "syncing"
                /\ ~isSyncing']_vars

\* C9: an item whose create failed with a network error is not failed when the
\* run that sent it returns.
C9_NetworkErrorStaysPending ==
  [][\A r \in Runs : Returns(r) =>
       \A x \in run[r].netf : queue'[x].st # "failed"]_vars

\* C10: the retry cap is terminal: an item whose every answered create was
\* refused is sent at most MAX_RETRY_ATTEMPTS times, and an item that is
\* failed with attempts at the cap is never changed again.
C10_RetryCapTerminal ==
  /\ [](\A x \in Items : tries[x].refused >= tries[x].sent - 1 =>
                            tries[x].sent <= MAX_RETRY_ATTEMPTS)
  /\ [][\A x \in Items :
          (queue[x].st = "failed" /\ queue[x].att >= MAX_RETRY_ATTEMPTS) =>
             queue'[x] = queue[x]]_vars

C12_DeleteRunTerminates ==
  \A d \in DelRuns : (del[d].pc # "idle") ~> (del[d].pc = "idle")

\* C13: when queueDeleteAll(userId) returns, the stored DeleteOperation is
\* {userId, pending, totalDeleted 0, totalToDelete 0}, the sync queue is
\* empty and isSyncing is false.
C13_QueuedCleanAtReturn ==
  [][QdaResetStatus =>
       /\ delOp' = [status |-> "pending", userId |-> qda.userId,
                    totalDeleted |-> 0, totalToDelete |-> 0]
       /\ queue' = EmptyQueue
       /\ ~isSyncing']_vars

\* C14: the status of the stored DeleteOperation changes only from pending
\* to in-progress, from in-progress to completed, failed or pending.  A step
\* that stores a new operation (queueDeleteAll) or removes the record is not
\* a change of status.
C14_StatusTransitions ==
  [][(/\ delOp.status # "none"
      /\ delOp'.status # "none"
      /\ delOp'.status # delOp.status
      /\ ~(\E u \in Users : QueueDeleteAll(u)))
       => <<delOp.status, delOp'.status>> \in
            {<<"pending", "in-progress">>, <<"in-progress", "completed">>,
             <<"in-progress", "failed">>, <<"in-progress", "pending">>}]_vars

\* C15: at most one invocation of startDeletingTransactions is past the
\* in-memory lock; the lock is held exactly while one is; an invocation made
\* while the lock is held returns without deleting anything and without
\* changing the stored operation.
C15_OneDeleteRun ==
  /\ [](/\ Cardinality({d \in DelRuns : del[d].pc # "idle"}) <= 1
        /\ deleteOperationLocked <=> \E d \in DelRuns : del[d].pc # "idle")
  /\ [][\A d \in DelRuns :
          DeleteLockedOut(d) =>
            /\ del'[d].pc = "idle"
            /\ remote' = remote
            /\ delOp' = delOp]_vars

\* A second invocation was turned away while the first is deleting a document.
C15_SecondTurnedAway ==
  /\ del["d1"].pc = "d_delete"
  /\ del["d2"].lockedOut
  /\ deleteOperationLocked

C17_GivenUpNotRetried ==
  [][\A d \in DelRuns :
       /\ (del[d].pc = "d_retry" /\ del'[d].pc = "d_progress"
           /\ del[d].doc \in del'[d].gaveUp)
            => del'[d].totalDeleted = del[d].totalDeleted
       /\ (del[d].pc # "d_delete" /\ del'[d].pc = "d_delete")
            => del'[d].doc \notin del[d].gaveUp]_vars

\* C18: a delete run that saw no document left returns with the record of
\* its operation removed (only an operation queued since may be stored), the
\* sync queue removed and isSyncing false.
C18_CompletedLeavesNothing ==
  [][\A d \in DelRuns :
       DeleteFinish(d) =>
         /\ delOp' = NoDelete \/ delOp'.status = "pending"
         /\ queue' = EmptyQueue
         /\ ~isSyncing']_vars

\* C19: when a delete run ends in failed after it deleted k > 0 documents,
\* the stored operation is failed with totalDeleted = k.
C19_FailedKeepsCount ==
  [][\A d \in DelRuns :
       (DeleteFailed(d) /\ del[d].totalDeleted > 0 /\ delOp.status # "none")
         => /\ delOp'.status = "failed"
            /\ delOp'.totalDeleted = del[d].totalDeleted]_vars

\* The rows of an account that the first pass can take a balance from.
C20_Completed(rows, a) ==
  {i \in 1..Len(rows) : /\ rows[i].accountKey = a
                        /\ rows[i].state = "COMPLETED"
                        /\ rows[i].balance # NoBalance}

\* The chronologically latest of them, the first in input order on a tie.
C20_Latest(rows, a) ==
  CHOOSE i \in C20_Completed(rows, a) :
    \A j \in C20_Completed(rows, a) :
      \/ rows[j].date < rows[i].date
      \/ rows[j].date = rows[i].date /\ i <= j

RECURSIVE C20_Sum(_, _)
C20_Sum(rows, S) ==
  IF S = {} THEN 0
  ELSE LET i == CHOOSE k \in S : TRUE IN rows[i].amount + C20_Sum(rows, S \ {i})

C20_Pending(rows, a) ==
  {i \in 1..Len(rows) : rows[i].accountKey = a /\ rows[i].state = "PENDING"}

C21_RestoreFromSnapshot ==
  [][/\ RestoreUpdate =>
          \A i \in undo.todo \ undo'.todo :
            undo.listed[i].previousBalance # NoPrevious =>
              /\ balanceDocs'[i].balance = undo.listed[i].previousBalance
              /\ balanceDocs'[i].previousBalance = NoPrevious
              /\ balanceDocs'[i].previousBalanceTimestamp = 0
              /\ balanceDocs'[i].importBatchId = NoBatch
     /\ RestoreReturn =>
          /\ undo'.result
          /\ \A i \in Tagged(undo.listed, undo.importBatchId) :
               balanceDocs'[i].importBatchId # undo.importBatchId
     /\ (RestoreList /\ Tagged(balanceDocs, undo.importBatchId) = {}) =>
          /\ balanceDocs' = balanceDocs
          /\ undo'.pc = "idle"
          /\ ~undo'.result]_vars

\* A second undo of a batch has returned false after the first one restored
\* the balance of the imported account.
C21_SecondUndoNoOp ==
  /\ undo.pc = "idle"
  /\ undo.calls = 2
  /\ undo.importBatchId = "b1"
  /\ ~undo.result
  /\ bimp.pc = "done"
  /\ Len(balanceDocs) = 1
  /\ balanceDocs[1].balance = 5
  /\ balanceDocs[1].importBatchId = NoBatch
  /\ upsert = [p \in Upserters |-> IdleUpsert]

\* C24: the balance collection holds at most one document per accountKey.
C24_OneDocPerAccount ==
  \A i, j \in 1..Len(balanceDocs) :
    balanceDocs[i].accountKey = balanceDocs[j].accountKey => i = j

\* C22: when a batch was imported (snapshot saved, balances upserted) and is
\* then undone, with no other upsert in between, every account the import
\* touched has its balance of before the import again; an account that had
\* no document before is not left with the imported balance.
C22_RoundTrip ==
  [][(/\ undo.pc # "idle"
      /\ undo'.pc = "idle"
      /\ undo.calls = 1
      /\ undo.afterImport
      /\ undo.importBatchId = bimp.importBatchId
      /\ \A p \in Upserters : upsert[p].calls = 0)
       => \A n \in 1..Len(bimp.accounts) :
            BalanceOf(balanceDocs', bimp.accounts[n]) = bimp.pre[bimp.accounts[n]]]_vars

\* C23: once an import batch is undone no remote transaction of the batch
\* exists, then or later, also when transactions of the batch were still in
\* the sync queue at the time of the undo.
C23_UndoneStaysDeleted ==
  undo.undone => TransactionsOf(remote, undo.importBatchId) = {}

\* C25: after learnMerchantCategory(title, catA) was called twice in a row,
\* with no vote document of the pair before, the pair has exactly one vote
\* document and its votes are 2.
C25_TwoVotesOneRecord ==
  \A t \in LearnTitles :
    LET key == GetMerchantKey(t)
    IN (learn["l1"].pc = "idle" /\ learn["l1"].cast[<<key, "catA">>] = 2)
         => /\ Cardinality(VotesOf(voteDocs, key, "catA")) = 1
            /\ \A i \in VotesOf(voteDocs, key, "catA") : voteDocs[i].votes = 2

\* Two votes were cast for one merchant under two spellings of its title.
C25_VotedTwice ==
  /\ learn["l1"].pc = "idle"
  /\ learn["l1"].cast[<<GetMerchantKey(<<"A", "b">>), "catA">>] = 2
  /\ Len(voteDocs) = 1
  /\ voteDocs[1].votes = 2

\* The votes cast for a pair by all callers.
C26_Cast(pr) == learn["l1"].cast[pr] + learn["l2"].cast[pr]

\* C26: when no call is under way, the votes of every pair voted on are held
\* in one document whose count is the number of calls made for the pair.
C26_IncrementSemantics ==
  (\A l \in Learners : learn[l].pc = "idle") =>
    \A pr \in DOMAIN learn["l1"].cast :
      C26_Cast(pr) > 0 =>
        /\ Cardinality(VotesOf(voteDocs, pr[1], pr[2])) = 1
        /\ \A i \in VotesOf(voteDocs, pr[1], pr[2]) : voteDocs[i].votes = C26_Cast(pr)

\* The categories with the most votes of a stored key, and whether it has any.
C27_MostVoted(key) ==
  {c \in CategoryIds :
     /\ TotalVotes(voteDocs, key, c) > 0
     /\ \A d \in CategoryIds : TotalVotes(voteDocs, key, d) <= TotalVotes(voteDocs, key, c)}
C27_Learned == {k \in StoredKeys : C27_MostVoted(k) # {}}
C27_Similar(key) ==
  {k \in C27_Learned :
     Len(k) >= 4 /\ (Includes(key, k) \/ (Len(key) >= 5 /\ Includes(k, key)))}
C27_FirstRule(groups, isExpense) ==
  IF \E i \in 1..Len(RuleOrder) : RuleOrder[i] \in groups
  THEN RuleOrder[CHOOSE i \in 1..Len(RuleOrder) :
                   /\ RuleOrder[i] \in groups
                   /\ \A j \in 1..(i - 1) : RuleOrder[j] \notin groups]
  ELSE IF ~isExpense /\ "income" \in groups THEN "income" ELSE NoKeyword

C28_GuardOfFour ==
  match.done =>
    /\ (Len(match.storedKey) < 4 /\ match.storedKey # match.titleKey)
         => match.result = NoCategory
    /\ (Len(match.titleKey) >= 4 /\ Len(match.storedKey) >= 4
          /\ Includes(match.storedKey, match.titleKey))
         => match.result # NoCategory

\* C28 amended: a stored key of less than 4 characters matches no other title
\* key; a title key of 5 or more characters contained in a stored key
\* matches it, and so does a title key that contains a stored key of 4 or
\* more characters; a title key of 4 characters contained in a longer stored
\* key does not match it.
C28_GuardFourAndFive ==
  match.done =>
    /\ (Len(match.storedKey) < 4 /\ match.storedKey # match.titleKey)
         => match.result = NoCategory
    /\ (Len(match.titleKey) >= 5 /\ Includes(match.storedKey, match.titleKey))
         => match.result # NoCategory
    /\ (Len(match.storedKey) >= 4 /\ Includes(match.titleKey, match.storedKey))
         => match.result # NoCategory
    /\ (Len(match.titleKey) = 4 /\ Len(match.storedKey) > 4
          /\ Includes(match.storedKey, match.titleKey))
         => match.result = NoCategory

\* A title key of 5 characters was matched to a longer stored key.
C28_FiveInStored ==
  /\ match.done
  /\ Len(match.titleKey) = 5
  /\ Len(match.storedKey) = 6
  /\ Includes(match.storedKey, match.titleKey)
  /\ match.result = "catA"

\* C29: a finished batchCategorizeTransactions has fetched the category list
\* once and the learned mappings once, whatever the number of its rows.
C29_OneFetchPerBatch ==
  (cat.kind = "batch" /\ cat.pc = "done") =>
    cat.categoryFetches = 1 /\ cat.mappingFetches = 1

\* A batch of two rows, one learned and one falling back to general.
C29_TwoRowsOneFetch ==
  /\ cat.kind = "batch" /\ cat.pc = "done"
  /\ Len(cat.rows) = 2
  /\ cat.results[1] \in CategoryIds
  /\ cat.results[2] = "general"
  /\ cat.categoryFetches = 1

\* C30: a write of the exclusion toggle or of a saved edit leaves the
\* excludeFromAnalytics of every stored copy that is protected, in the sync
\* queue and in the remote store, as it was.
C30_ProtectedKeepsExclusion ==
  [][detail.pc \in {"t_write", "s_write"} =>
       /\ (tx.queued /\ tx.q.isAnalyticsProtected)
            => tx'.q.excludeFromAnalytics = tx.q.excludeFromAnalytics
       /\ (tx.inRemote /\ tx.r.isAnalyticsProtected)
            => tx'.r.excludeFromAnalytics = tx.r.excludeFromAnalytics]_vars

\* The toggle of a protected transfer was refused and an edit of it saved;
\* it is still excluded.
C30_ProtectedEdited ==
  /\ detail.refused
  /\ detail.savedProtected
  /\ tx.inRemote /\ tx.r.isAnalyticsProtected /\ tx.r.excludeFromAnalytics

\* C40: every result of a finished batchCategorizeTransactions is what
\* categorizeTransaction returns for that row over the same category list
\* and learned mappings, and a finished categorizeTransaction returned that.
C40_BatchAgreesWithSingle ==
  /\ (cat.kind = "batch" /\ cat.pc = "done") =>
       \A i \in 1..Len(cat.rows) :
         cat.results[i] = CategorizeTransaction(cat.rows[i].title, cat.rows[i].groups,
                                                cat.rows[i].isExpense,
                                                GetLearnedMappings(voteDocs), cat.categories)
  /\ (cat.kind = "single" /\ cat.pc = "done") =>
       cat.results[1] = CategorizeTransaction(cat.rows[1].title, cat.rows[1].groups,
                                              cat.rows[1].isExpense,
                                              GetLearnedMappings(voteDocs), cat.categories)

\* A batch of an income row resolved by keyword and a row resolved by votes.
C40_IncomeAndLearned ==
  /\ cat.kind = "batch" /\ cat.pc = "done"
  /\ Len(cat.rows) = 2
  /\ ~cat.rows[1].isExpense
  /\ cat.results[1] = "income"
  /\ cat.results[2] \in CategoryIds

\* C33: once queueDeleteAll has returned, none of the items queued before
\* its call is in the sync queue, whatever a sync run in flight writes.
C33_DeletionSupersedesUploads ==
  (qda.pc = "idle" /\ env.deleteAlls < MaxDeleteAlls) => Present(queue) = {}

\* C34: a transaction queueTransactionsForSync has returned is in the
\* persisted queue until it has been uploaded (no transaction is removed by
\* hand and no delete-all is queued here).
C34_AcceptedStaysQueued ==
  \A x \in enq.accepted : queue[x].st # "absent" \/ remote[x] > 0

\* C35: cleanupSyncQueue removes no queued transaction that has not been
\* uploaded yet, neither the user's own nor another user's.
C35_CleanupKeepsUnsynced == cln.removed = {}

\* C32: within one createBulkTransactions call at most BATCH_SIZE creates are
\* in flight, and creates are issued only when every create of the batch
\* before has resolved and its success callback has run, in input order.
C32_BatchesInOrder ==
  /\ [](\A r \in Runs : Cardinality(run[r].wait) <= BATCH_SIZE)
  /\ [][\A r \in Runs :
          Issued(r) # {} =>
            /\ run[r].wait = {}
            /\ run[r].pc \notin {"s_batch", "s_obs_read", "s_obs_write"}
            /\ Cardinality(Issued(r)) <= BATCH_SIZE
            /\ \A x \in Issued(r) : \A y \in run[r].sent :
                 UserOf(x) = UserOf(y) => y < x]_vars

\* The second batch of a call is in flight after the first was marked.
C32_SecondBatchInFlight ==
  \E r \in Runs :
    /\ run[r].pc = "s_batch"
    /\ run[r].i = BATCH_SIZE
    /\ run[r].wait # {}
    /\ Cardinality(run[r].sent) > BATCH_SIZE
    /\ \E y \in run[r].sent \ run[r].wait : queue[y].st = "completed"

\* C38: a call of startSyncingTransactions is turned away at its start
\* exactly when the stored delete operation is pending or in progress, the
\* statuses the poll of a run under way looks for.
C38_OnlyActiveDeleteBlocks ==
  [][\A r \in Runs :
       StartSync(r) => (run'[r].pc = "s_blocked" <=> BlocksRun(delOp))]_vars

C31_LinkReciprocalOrHealed ==
  \A t \in TransferIds :
    (xfer.shown = t /\ xfer.docs[t].matchedTransferId # "none") =>
      \/ /\ xfer.docs[xfer.docs[t].matchedTransferId].exists
         /\ xfer.docs[xfer.docs[t].matchedTransferId].matchedTransferId = t
      \/ /\ ~xfer.docs[t].isAnalyticsProtected
         /\ ~xfer.docs[t].excludeFromAnalytics

\* C36: when the process was killed with the delete operation in progress
\* and only the background delete task runs afterwards, the operation is
\* eventually completed: every remote transaction of the user is deleted.
C36_ResumedInBackground ==
  (~up /\ delOp.status = "in-progress")
    ~> (\A x \in Items : UserOf(x) = delOp.userId => remote[x] = 0)

\* C37: once the process was killed and the background sync task is what
\* runs, every transaction still in the queue is eventually completed (the
\* deferred purge may remove it afterwards), also one a killed run left as
\* syncing.
C37_BackgroundSyncCompletes ==
  \A x \in Items :
    (~up /\ queue[x].st \in {"pending", "syncing", "failed"})
      ~> (queue[x].st \in {"completed", "absent"})

=============================================================================
